---------------------------- MODULE Spec2Model ----------------------------
(***************************************************************************)
(* A model of nanoQC's fastq ingestion path (src/nanoQC.py):               *)
(*   NanoQC.run -> NanoQC.parse_fastq_parallel -> NanoQC.parse_file ->     *)
(*   NanoQC.parse_fastq_to_dict.                                           *)
(*                                                                         *)
(* File contents are sequences of raw lines, a raw line is a sequence of   *)
(* byte values (the files are opened in 'rb' mode), a path is a sequence   *)
(* of one-character strings (a Python str).                                *)
(***************************************************************************)
EXTENDS Integers, Sequences, FiniteSets, TLC

\* ------------------------------------------------------------- bounds

\* Longest list of discovered files handed to parse_fastq_parallel.
MaxFiles == 3
\* Largest worker pool (mp.cpu_count()).
MaxCpu == 2
\* Most lines of a file parse_file is run on line by line.
MaxLines == 9

\* ------------------------------------------------------ bytes and text

\* ord() of the characters the modelled files are written with.
Ord(c) ==
    CASE c = "\n" -> 10
      [] c = " " -> 32
      [] c = "!" -> 33
      [] c = "#" -> 35
      [] c = "+" -> 43
      [] c = "0" -> 48
      [] c = "1" -> 49
      [] c = "2" -> 50
      [] c = "3" -> 51
      [] c = "4" -> 52
      [] c = "5" -> 53
      [] c = "6" -> 54
      [] c = "8" -> 56
      [] c = "=" -> 61
      [] c = "?" -> 63
      [] c = "@" -> 64
      [] c = "A" -> 65
      [] c = "C" -> 67
      [] c = "G" -> 71
      [] c = "T" -> 84
      [] c = "a" -> 97
      [] c = "b" -> 98
      [] c = "c" -> 99
      [] c = "d" -> 100
      [] c = "g" -> 103
      [] c = "i" -> 105
      [] c = "n" -> 110
      [] c = "r" -> 114
      [] c = "t" -> 116
      [] c = "u" -> 117
      [] c = "x" -> 120

\* A bytes literal: b'...' written as a tuple of characters.
Bytes(s) == [i \in 1..Len(s) |-> Ord(s[i])]

\* bytes.isspace() for one byte: space, \t, \n, \v, \f, \r.
IsSpace(b) == b \in {32, 9, 10, 11, 12, 13}

\* s[from:] (1-based, inclusive start).
Drop(s, n) == IF n >= Len(s) THEN << >> ELSE SubSeq(s, n + 1, Len(s))

\* bytes.rstrip(): trailing whitespace removed.
RECURSIVE Rstrip(_)
Rstrip(s) ==
    IF s = << >> THEN << >>
    ELSE IF IsSpace(s[Len(s)]) THEN Rstrip(SubSeq(s, 1, Len(s) - 1))
    ELSE s

\* str.split(sep) / bytes.split(sep) for a one-element separator: the pieces
\* between separators, empty pieces kept.
RECURSIVE SplitOn(_, _, _)
SplitOn(s, sep, cur) ==
    IF s = << >> THEN << cur >>
    ELSE IF Head(s) = sep THEN << cur >> \o SplitOn(Tail(s), sep, << >>)
    ELSE SplitOn(Tail(s), sep, Append(cur, Head(s)))

\* bytes.split() without argument: runs of whitespace separate, no empty pieces.
RECURSIVE SplitWs(_, _)
SplitWs(s, cur) ==
    IF s = << >> THEN (IF cur = << >> THEN << >> ELSE << cur >>)
    ELSE IF IsSpace(Head(s))
         THEN (IF cur = << >> THEN << >> ELSE << cur >>) \o SplitWs(Tail(s), << >>)
    ELSE SplitWs(Tail(s), Append(cur, Head(s)))

\* bytes.count(x) for a single byte x.
RECURSIVE Count(_, _)
Count(s, x) ==
    IF s = << >> THEN 0
    ELSE (IF Head(s) = x THEN 1 ELSE 0) + Count(Tail(s), x)

\* sum() of a list of integers.
RECURSIVE Sum(_)
Sum(s) == IF s = << >> THEN 0 ELSE Head(s) + Sum(Tail(s))

\* `sub in s` for sequences.
Contains(s, sub) ==
    \E i \in 0..(Len(s) - Len(sub)) : SubSeq(s, i + 1, i + Len(sub)) = sub

\* s.endswith(suffix).
EndsWith(s, suffix) ==
    /\ Len(s) >= Len(suffix)
    /\ SubSeq(s, Len(s) - Len(suffix) + 1, Len(s)) = suffix

\* os.path.basename(f): the text after the last '/'.
Basename(f) == LET parts == SplitOn(f, "/", << >>) IN parts[Len(parts)]

RECURSIVE Gcd(_, _)
Gcd(a, b) == IF b = 0 THEN a ELSE Gcd(b, a % b)


\* ------------------------------------------------- parse_fastq_to_dict

\* An exception: its class, and the filename attribute it carries (none of the
\* exceptions parse_file can raise while decoding has one).
NoFile == << >>
Exc(kind) == [kind |-> kind, filename |-> NoFile]

\* dateutil.parser.parse on the timestamp text.  Modelled for the two shapes the
\* modelled files use: eight digits YYYYMMDD with a valid month and day parse to
\* that date, any other text is an unknown string format (ParserError).
Digit(b) == b - 48
DaysIn(year, month) ==
    IF month = 2
    THEN (IF year % 4 = 0 /\ (year % 100 # 0 \/ year % 400 = 0) THEN 29 ELSE 28)
    ELSE IF month \in {4, 6, 9, 11} THEN 30 ELSE 31
IsDateText(t) ==
    /\ Len(t) = 8
    /\ \A i \in 1..8 : t[i] \in 48..57
    /\ (Digit(t[5]) * 10 + Digit(t[6])) \in 1..12
    /\ (Digit(t[7]) * 10 + Digit(t[8])) \in
          1..DaysIn(Digit(t[1]) * 1000 + Digit(t[2]) * 100 + Digit(t[3]) * 10 + Digit(t[4]),
                    Digit(t[5]) * 10 + Digit(t[6]))
parse(t) ==
    [year |-> Digit(t[1]) * 1000 + Digit(t[2]) * 100 + Digit(t[3]) * 10 + Digit(t[4]),
     month |-> Digit(t[5]) * 10 + Digit(t[6]),
     day |-> Digit(t[7]) * 10 + Digit(t[8])]

Abs(x) == IF x < 0 THEN -x ELSE x
\* The mean cut down to a whole number.
average_phred_floored(qual) ==
    [num |-> (Sum(qual) - 33 * Len(qual)) \div Len(qual), den |-> 1]

\* sum(phred_list) / len(phred_list) - 33, kept as the exact fraction in lowest
\* terms (the code keeps the double nearest to it, rounded to no decimal place).
average_phred(qual) ==
    LET n == Sum(qual) - 33 * Len(qual)
        g == Gcd(Abs(n), Len(qual))
    IN [num |-> n \div g, den |-> Len(qual) \div g]

\* Python floats are IEEE-754 doubles: 53 significant bits, every operation
\* rounded to the nearest double, an exact half to the even one.  A significand
\* is kept here as a sequence of limbs of LimbBits bits, the most significant
\* first.
Precision == 53
LimbBits == 9
Base == 512
RECURSIVE Pow2(_)
Pow2(n) == IF n = 0 THEN 1 ELSE 2 * Pow2(n - 1)
\* The number of bits of v > 0.
RECURSIVE BitLen(_)
BitLen(v) == IF v = 0 THEN 0 ELSE 1 + BitLen(v \div 2)
\* The limbs of s plus the small number c.
RECURSIVE AddSmall(_, _)
AddSmall(s, c) ==
    IF c = 0 THEN s
    ELSE IF s = << >> THEN << c >>
    ELSE AddSmall(SubSeq(s, 1, Len(s) - 1), (s[Len(s)] + c) \div Base)
            \o << (s[Len(s)] + c) % Base >>
\* The limbs of s times the small number m, plus carry.
RECURSIVE MulSmall(_, _, _)
MulSmall(s, m, carry) ==
    IF s = << >> THEN (IF carry = 0 THEN << >> ELSE << carry >>)
    ELSE MulSmall(SubSeq(s, 1, Len(s) - 1), m, (s[Len(s)] * m + carry) \div Base)
            \o << (s[Len(s)] * m + carry) % Base >>
\* Round to nearest, ties to even, dropping the lowest e bits of s (0 < e <
\* LimbBits; they are set to zero); `sticky` tells that the exact value has
\* more than the bits of s.
RoundLow(s, e, sticky) ==
    LET last == s[Len(s)]
        guard == (last \div Pow2(e - 1)) % 2
        below == last % Pow2(e - 1)
        odd == (last \div Pow2(e)) % 2
        kept == SubSeq(s, 1, Len(s) - 1) \o << last - (last % Pow2(e)) >>
    IN IF guard = 1 /\ (sticky \/ below # 0 \/ odd = 1)
       THEN AddSmall(kept, Pow2(e))
       ELSE kept
\* How many zero bits the binary expansion of r/n (0 < r < n) starts with.
RECURSIVE LeadingZeros(_, _)
LeadingZeros(r, n) == IF 2 * r >= n THEN 0 ELSE 1 + LeadingZeros(2 * r, n)
\* Long division: `acc` followed by the next `count` limbs of r/n (r < n), and
\* the remainder left.
RECURSIVE DivLimbs(_, _, _, _)
DivLimbs(r, n, count, acc) ==
    IF count = 0 THEN [limbs |-> acc, rem |-> r]
    ELSE DivLimbs((r * Base) % n, n, count - 1, Append(acc, (r * Base) \div n))
\* k / float(n) for 0 < k < n: the quotient is limbs / 2^(zeros + 54), the 54
\* bits after its leading zeros rounded to 53.
DivDouble(k, n) ==
    LET z == LeadingZeros(k, n)
        q == DivLimbs(k * Pow2(z), n, (Precision + 1) \div LimbBits, << >>)
    IN [limbs |-> RoundLow(q.limbs, 1, q.rem # 0), zeros |-> z]
\* x * 100, rounded to a double: the product has 60 or 61 bits.
MulHundred(x) ==
    LET p == MulSmall(x.limbs, 100, 0)
        bits == LimbBits * (Len(p) - 1) + BitLen(p[1])
    IN [limbs |-> RoundLow(p, bits - Precision, FALSE), zeros |-> x.zeros]
\* int(round(x)): Python 3 round() of a double is the nearest integer to its exact
\* value, an exact half going to the even neighbour.  `top` is what stands
\* above the 54 lowest bits; the binary point is x.zeros bits further up.
RoundDouble(x) ==
    LET low == (Precision + 1) \div LimbBits
        top == IF Len(x.limbs) > low THEN x.limbs[1] ELSE 0
        rest == SubSeq(x.limbs, Len(x.limbs) - low + 1, Len(x.limbs))
        ip == top \div Pow2(x.zeros)
        half == IF x.zeros = 0 THEN rest[1] \div (Base \div 2)
                ELSE (top \div Pow2(x.zeros - 1)) % 2
        more == \/ (x.zeros = 0 /\ rest[1] % (Base \div 2) # 0)
                \/ (x.zeros > 0 /\ top % Pow2(x.zeros - 1) # 0)
                \/ (x.zeros > 0 /\ rest[1] # 0)
                \/ \E i \in 2..Len(rest) : rest[i] # 0
    IN IF half = 0 THEN ip
       ELSE IF more THEN ip + 1
       ELSE IF ip % 2 = 0 THEN ip ELSE ip + 1

\* int(round(k / float(n) * 100)) for 0 <= k <= n, n > 0 (0/n is 0.0 and n/n is
\* 1.0, both exact, as are 0.0 * 100 and 1.0 * 100).
gc_of(k, n) ==
    IF k = 0 THEN 0
    ELSE IF k = n THEN 100
    ELSE RoundDouble(MulHundred(DivDouble(k, n)))

\* int(round((g_count + c_count) / float(length) * 100)), length > 0.
gc_percent(seq) ==
    gc_of(Count(seq, Ord("G")) + Count(seq, Ord("C")), Len(seq))

\* MyObjects(name, length, flag, average_phred, gc, time_string).
MyObjects(name, length, flag, phred, gc, time_string) ==
    [name |-> name, length |-> length, flag |-> flag,
     average_phred |-> phred, gc |-> gc, time_string |-> time_string]

\* A dictionary is a function from its keys; {} is the function with no keys.
EmptyDict == [k \in {} |-> 0]
\* An assignment that leaves a key already present as it is.
SetItemIfAbsent(my_dict, key, value) ==
    [k \in DOMAIN my_dict \cup {key} |->
        IF k \in DOMAIN my_dict THEN my_dict[k] ELSE value]

\* my_dict[seq_id] = seq
SetItem(my_dict, key, value) ==
    [k \in DOMAIN my_dict \cup {key} |-> IF k = key THEN value ELSE my_dict[k]]

Ok(dict) == [ok |-> TRUE, dict |-> dict, error |-> Exc("none")]
Raise(kind) == [ok |-> FALSE, dict |-> EmptyDict, error |-> Exc(kind)]

\* Lines 244-249: seq_id and the parsed time_string of the header line, or the
\* exception raised on the way.
HeaderFields(header) ==
    LET tokens == SplitWs(header, << >>)
    IN IF Len(tokens) < 1 THEN [ok |-> FALSE, kind |-> "IndexError"]   \* header.split()[0]
       ELSE IF Len(tokens) < 5 THEN [ok |-> FALSE, kind |-> "IndexError"] \* header.split()[4]
       ELSE
       LET fields == SplitOn(tokens[5], Ord("="), << >>)
       IN IF Len(fields) < 2 THEN [ok |-> FALSE, kind |-> "IndexError"] \* .split(b'=')[1]
          ELSE IF ~IsDateText(fields[2]) THEN [ok |-> FALSE, kind |-> "ParserError"]
          ELSE [ok |-> TRUE, kind |-> "none", seq_id |-> Drop(tokens[1], 1),
                time_string |-> parse(fields[2])]

\* Both divisions guarded: an empty line gives a mean of 0 and a gc of 0.
MeasuresGuarded(seq, qual) ==
    [ok |-> TRUE, kind |-> "none", length |-> Len(seq),
     average_phred |-> IF Len(qual) = 0 THEN [num |-> 0, den |-> 1]
                       ELSE average_phred(qual),
     gc |-> IF Len(seq) = 0 THEN 0 ELSE gc_percent(seq)]

\* Lines 251-264: length, average_phred and gc of the sequence and quality
\* lines, or the exception raised on the way.
Measures(seq, qual) ==
    IF Len(qual) = 0 THEN [ok |-> FALSE, kind |-> "ZeroDivisionError"]  \* / len(phred_list)
    ELSE IF Len(seq) = 0 THEN [ok |-> FALSE, kind |-> "ZeroDivisionError"] \* / float(length)
    ELSE [ok |-> TRUE, kind |-> "none", length |-> Len(seq),
          average_phred |-> average_phred(qual), gc |-> gc_percent(seq)]

\* The body of parse_fastq_to_dict on a group of four lines: the dictionary after
\* the call, or the exception the call raises (my_dict is then as it was: the
\* insertion is the last statement).
Decode(group, my_dict, name, flag) ==
    LET h == HeaderFields(group[1])
        m == Measures(group[2], group[4])
    IN IF ~h.ok THEN Raise(h.kind)
       ELSE IF ~m.ok THEN Raise(m.kind)
       ELSE Ok(SetItem(my_dict, h.seq_id,
                       MyObjects(name, m.length, flag, m.average_phred, m.gc,
                                 h.time_string)))

\* A group that is not of four lines is taken as no record at all.
parse_fastq_to_dict_lenient(group, my_dict, name, flag) ==
    IF Len(group) # 4 THEN Ok(my_dict) ELSE Decode(group, my_dict, name, flag)

\* header, seq, extra, qual = l: a list of any other length than 4 is a
\* ValueError; then the four lines are decoded.
parse_fastq_to_dict(group, my_dict, name, flag) ==
    IF Len(group) # 4 THEN Raise("ValueError") ELSE Decode(group, my_dict, name, flag)

\* ----------------------------------------------------------- parse_file

\* The base name cut at its first '.' only.
SampleNameUncut(f) == SplitOn(Basename(f), ".", << >>)[1]

\* os.path.basename(f).split('.')[0].split('_')[0]
SampleName(f) == SplitOn(SplitOn(Basename(f), ".", << >>)[1], "_", << >>)[1]

\* 'pass' for a path with 'pass' in it, 'fail' for any other.
FlagByPass(f) == IF Contains(f, << "p", "a", "s", "s" >>) THEN "pass" ELSE "fail"

\* flag = 'pass'; if 'fail' in f: flag = 'fail'
Flag(f) == IF Contains(f, << "f", "a", "i", "l" >>) THEN "fail" ELSE "pass"

\* The state of parse_file's read loop: the lines accumulated, the private
\* dictionary, whether the loop was left by break, and the exception raised.
LoopStart == [lines |-> << >>, my_dict |-> EmptyDict, stopped |-> FALSE,
              error |-> Exc("none")]
Failed(loop) == loop.error.kind # "none"

\* One iteration of `for line in file_handle` on the raw line `raw`.
LoopStep(loop, raw, name, flag) ==
    IF Failed(loop) \/ loop.stopped THEN loop
    ELSE IF raw = << >> THEN [loop EXCEPT !.stopped = TRUE]    \* if not line: break
    ELSE
    LET line == Rstrip(raw)
    IN IF Len(loop.lines) = 4
       THEN LET r == parse_fastq_to_dict(loop.lines, loop.my_dict, name, flag)
            IN IF r.ok
               THEN [loop EXCEPT !.my_dict = r.dict, !.lines = << line >>]
               ELSE [loop EXCEPT !.error = r.error]
       ELSE [loop EXCEPT !.lines = Append(loop.lines, line)]

\* The call after the loop left out: the last group is never decoded.
FinalGroupSkipped(loop, name, flag) == loop

\* The call after the loop: self.parse_fastq_to_dict(lines, my_dict, name, flag).
FinalGroup(loop, name, flag) ==
    IF Failed(loop) THEN loop
    ELSE LET r == parse_fastq_to_dict(loop.lines, loop.my_dict, name, flag)
         IN IF r.ok THEN [loop EXCEPT !.my_dict = r.dict]
            ELSE [loop EXCEPT !.error = r.error]

RECURSIVE ReadLoop(_, _, _, _)
ReadLoop(loop, raws, name, flag) ==
    IF raws = << >> \/ Failed(loop) \/ loop.stopped THEN loop
    ELSE ReadLoop(LoopStep(loop, Head(raws), name, flag), Tail(raws), name, flag)

\* --------------------------------------------------- the files on disk

\* The four raw lines of one record, as the file iterator yields them.
Header(id, stamp) ==
    Bytes(<< "@" >>) \o id \o Bytes(<< " ", "a", " ", "b", " ", "c", " ", "t", "=" >>)
        \o stamp \o Bytes(<< "\n" >>)
Record(id, stamp, seq, qual) ==
    << Header(id, stamp), seq \o Bytes(<< "\n" >>), Bytes(<< "+", "\n" >>),
       qual \o Bytes(<< "\n" >>) >>

Id1 == Bytes(<< "r", "1" >>)
Id2 == Bytes(<< "r", "2" >>)
Id3 == Bytes(<< "r", "3" >>)
Id4 == Bytes(<< "r", "4" >>)
Id5 == Bytes(<< "r", "5" >>)
Stamp1 == Bytes(<< "2", "0", "1", "8", "0", "1", "0", "2" >>)
Stamp2 == Bytes(<< "2", "0", "1", "8", "0", "3", "3", "1" >>)

\* /in/pass/s1_a.fastq: two records, r1 and r2.
PathA == << "/", "i", "n", "/", "p", "a", "s", "s", "/",
            "s", "1", "_", "a", ".", "f", "a", "s", "t", "q" >>
TextA == Record(Id1, Stamp1, Bytes(<< "G", "G", "C", "C", "A", "T" >>),
                Bytes(<< "?", "A", "C", "?", "A", "C" >>))
         \o Record(Id2, Stamp2, Bytes(<< "A", "C", "G", "T" >>),
                   Bytes(<< "5", "5", "5", "8" >>))
\* /in/fail/s2_b.fastq: one record, r3.
PathB == << "/", "i", "n", "/", "f", "a", "i", "l", "/",
            "s", "2", "_", "b", ".", "f", "a", "s", "t", "q" >>
TextB == Record(Id3, Stamp1, Bytes(<< "A", "T" >>), Bytes(<< "#", "5" >>))
\* /in/s1_c.fastq: one record whose read id, r1, is also in s1_a.fastq.
PathC == << "/", "i", "n", "/", "s", "1", "_", "c", ".", "f", "a", "s", "t", "q" >>
TextC == Record(Id1, Stamp2, Bytes(<< "C", "C", "C" >>), Bytes(<< "5", "5", "5" >>))
\* /in/pass/s3_d.fastq: one record and one more line (5 lines).
PathD == << "/", "i", "n", "/", "p", "a", "s", "s", "/",
            "s", "3", "_", "d", ".", "f", "a", "s", "t", "q" >>
TextD == Record(Id4, Stamp1, Bytes(<< "A", "C" >>), Bytes(<< "5", "5" >>))
         \o << Header(Id5, Stamp1) >>
\* /in/fail/s4.fastq.gz: a gzip stream of three records, r4, r5 and r2.
PathE == << "/", "i", "n", "/", "f", "a", "i", "l", "/",
            "s", "4", ".", "f", "a", "s", "t", "q", ".", "g", "z" >>
TextE == Record(Id4, Stamp1, Bytes(<< "G" >>), Bytes(<< "5" >>))
         \o Record(Id5, Stamp1, Bytes(<< "T", "T" >>), Bytes(<< "5", "8" >>))
         \o Record(Id2, Stamp1, Bytes(<< "G", "C", "A" >>), Bytes(<< "8", "8", "8" >>))
\* /in/pass/s5_f.fastq: one record whose header has four tokens.
PathF == << "/", "i", "n", "/", "p", "a", "s", "s", "/",
            "s", "5", "_", "f", ".", "f", "a", "s", "t", "q" >>
TextF == << Bytes(<< "@", "r", "5", " ", "a", " ", "b", " ", "c", "\n" >>),
            Bytes(<< "A", "C", "\n" >>), Bytes(<< "+", "\n" >>),
            Bytes(<< "5", "5", "\n" >>) >>
\* /in/pass/s6_g.fastq.gz: named as a gzip file, but plain text (one record).
PathG == << "/", "i", "n", "/", "p", "a", "s", "s", "/",
            "s", "6", "_", "g", ".", "f", "a", "s", "t", "q", ".", "g", "z" >>
TextG == Record(Id3, Stamp2, Bytes(<< "A" >>), Bytes(<< "5" >>))

\* /in/pass/fail_9.fastq.gz: a gzip stream of one record, r5.
PathL == << "/", "i", "n", "/", "p", "a", "s", "s", "/",
            "f", "a", "i", "l", "_", "9", ".", "f", "a", "s", "t", "q", ".", "g", "z" >>
TextL == Record(Id5, Stamp2, Bytes(<< "G", "A" >>), Bytes(<< "8", "5" >>))

\* /in/pass/s8_z.fastq: a file of zero lines.
PathZ == << "/", "i", "n", "/", "p", "a", "s", "s", "/",
            "s", "8", "_", "z", ".", "f", "a", "s", "t", "q" >>
TextZ == << >>

Paths == {PathA, PathB, PathC, PathD, PathE, PathF, PathG}
\* The files of the runs that meet the file of zero lines.
EmptyRunPaths == {PathA, PathB, PathZ}

\* What is stored under a path: whether the bytes are a gzip stream, and the raw
\* lines of the (decompressed) text.
Disk(f) ==
    CASE f = PathA -> [gzip |-> FALSE, raws |-> TextA]
      [] f = PathB -> [gzip |-> FALSE, raws |-> TextB]
      [] f = PathC -> [gzip |-> FALSE, raws |-> TextC]
      [] f = PathD -> [gzip |-> FALSE, raws |-> TextD]
      [] f = PathE -> [gzip |-> TRUE, raws |-> TextE]
      [] f = PathF -> [gzip |-> FALSE, raws |-> TextF]
      [] f = PathG -> [gzip |-> FALSE, raws |-> TextG]
      [] f = PathL -> [gzip |-> TRUE, raws |-> TextL]
      [] f = PathZ -> [gzip |-> FALSE, raws |-> TextZ]

\* gzip.open(f, 'rb') if f.endswith('gz') else open(f, 'rb'): the raw lines the
\* handle yields, or the error of reading a file that is no gzip stream.
OpenFile(f) ==
    IF EndsWith(f, << "g", "z" >>) /\ ~Disk(f).gzip
    THEN [ok |-> FALSE, raws |-> << >>, error |-> Exc("BadGzipFile")]
    ELSE [ok |-> TRUE, raws |-> Disk(f).raws, error |-> Exc("none")]

\* parse_file(f): the fragment it returns, or the exception it raises.
parse_file(f) ==
    LET handle == OpenFile(f)
        loop == FinalGroup(ReadLoop(LoopStart, handle.raws, SampleName(f), Flag(f)),
                         SampleName(f), Flag(f))
    IN IF ~handle.ok THEN [ok |-> FALSE, dict |-> EmptyDict, error |-> handle.error]
       ELSE IF Failed(loop) THEN [ok |-> FALSE, dict |-> EmptyDict, error |-> loop.error]
       ELSE Ok(loop.my_dict)

\* parse_file on every file of a set, as a table.
RECURSIVE ParseAll(_)
ParseAll(S) ==
    IF S = {} THEN << >>
    ELSE LET f == CHOOSE p \in S : TRUE
         IN (f :> parse_file(f)) @@ ParseAll(S \ {f})
\* parse_file on every file of the disk, computed once.
ParseTable == ParseAll(Paths \cup EmptyRunPaths)
ParseFile(f) == ParseTable[f]

\* ------------------------------------------------------------- state

VARIABLES
    l,          \* self.input_fastq_list: the discovered paths
    cpu,        \* self.cpu = mp.cpu_count()
    d,          \* self.sample_dict: the master dictionary
    pc,         \* where run() / parse_fastq_parallel is
    idx,        \* position of the for loop parse_fastq_parallel is in
    pool,       \* the worker pool: "none", "open", "closed", "joined"
    workers,    \* per worker process: alive, and the job it runs (0: none)
    jobs,       \* the AsyncResult objects, in submission order
    completed,  \* job indices in the order the workers finished them
    results,    \* the fragments collected by j.get()
    err,        \* the exception parse_fastq_parallel raised
    fpath,      \* parse_file run on its own: the path f
    content,    \*   the raw lines of that file
    fh,         \*   the raw lines file_handle has not yet yielded
    st,         \*   lines, my_dict of the read loop
    ppc,        \*   where parse_file is
    ret,        \*   the dictionary parse_file returned
    file_name,  \*   name: the sample name of the file
    file_flag,  \*   flag: 'pass' or 'fail'
    rec,        \* parse_fastq_to_dict called on its own: the list l passed
    before,     \*   my_dict as it was when the call was made
    after,      \*   my_dict as the call left it
    exc,        \*   the exception the call raised
    dpc,        \*   where the call is
    input_folder,   \* self.input_folder = args.fastq
    input_summary,  \* self.input_summary = args.summary
    output_folder,  \* self.output_folder = args.output
    tree,       \* the directory entries under the input folder
    created,    \* the folders pathlib.Path.mkdir made
    walk,       \* os.walk: directories still to visit, and the one being listed
    exit_code,  \* the status sys.exit was called with (0: not called)
    apc,        \* where check_args is
    out,        \* what parse_file or parse_fastq has printed on standard output
    sfile,      \* parse_fastq (the serial parser): f, the path it works on
    sname,      \*   name
    sflag,      \*   flag
    gz_flag,    \*   gz_flag
    tmp,        \*   the files written to /tmp, with their lines
    spc,        \*   where parse_fastq is
    data,       \* chunkify: the bytes of the file f
    file_end,   \*   file_end = os.path.getsize(f)
    size,       \*   size
    pos,        \*   the position of file_handle
    chunk_start,    \*   chunk_start
    chunk_end,  \*   chunk_end
    position,   \*   find_end_of_chunk: position
    cline,      \*   find_end_of_chunk: line
    chunks,     \*   the pairs (start, length) yielded so far
    cpc         \*   where chunkify is

dispatchVars == << l, cpu, d, pc, idx, pool, workers, jobs, completed, results, err >>
fileVars == << fpath, content, fh, st, ppc, ret, file_name, file_flag >>
decodeVars == << rec, before, after, exc, dpc >>
argsVars == << input_folder, input_summary, output_folder, tree, created, walk,
              exit_code, apc >>
serialVars == << sfile, sname, sflag, gz_flag, tmp, spc >>
chunkVars == << data, file_end, size, pos, chunk_start, chunk_end, position, cline,
               chunks, cpc >>
vars == << l, cpu, d, pc, idx, pool, workers, jobs, completed, results, err,
           fpath, content, fh, st, ppc, ret, file_name, file_flag,
           rec, before, after, exc, dpc,
           input_folder, input_summary, output_folder, tree, created, walk,
           exit_code, apc, out, sfile, sname, sflag, gz_flag, tmp, spc,
           data, file_end, size, pos, chunk_start, chunk_end, position, cline,
           chunks, cpc >>

\* All sequences without repetition of 1..n elements of S.
RECURSIVE Lists(_, _)
Lists(S, n) ==
    IF n = 0 THEN {<< >>}
    ELSE LET shorter == Lists(S, n - 1)
         IN shorter \cup {Append(q, x) : q \in {q \in shorter : Len(q) = n - 1}, x \in S}
Distinct(q) == \A i, j \in 1..Len(q) : i # j => q[i] # q[j]

None == [ok |-> FALSE, dict |-> EmptyDict, error |-> Exc("none")]

\* parse_file not running on its own.
FileIdle ==
    /\ fpath = << >>
    /\ content = << >>
    /\ fh = << >>
    /\ st = LoopStart
    /\ ppc = "idle"
    /\ ret = EmptyDict
    /\ file_name = << >>
    /\ file_flag = "none"

\* parse_fastq_to_dict not called on its own.
DecodeIdle ==
    /\ rec = << >>
    /\ before = EmptyDict
    /\ after = EmptyDict
    /\ exc = Exc("none")
    /\ dpc = "idle"

\* check_args not running.
ArgsIdle ==
    /\ input_folder = << >>
    /\ input_summary = << >>
    /\ output_folder = << >>
    /\ tree = {}
    /\ created = {}
    /\ walk = [stack |-> << >>, root |-> << >>, filenames |-> {}]
    /\ exit_code = 0
    /\ apc = "idle"

\* parse_fastq, the serial parser, not running, and nothing printed.
SerialIdle ==
    /\ out = << >>
    /\ sfile = << >>
    /\ sname = << >>
    /\ sflag = "none"
    /\ gz_flag = 0
    /\ tmp = EmptyDict
    /\ spc = "idle"

\* chunkify not running.
ChunkIdle ==
    /\ data = << >>
    /\ file_end = 0
    /\ size = 0
    /\ pos = 0
    /\ chunk_start = 0
    /\ chunk_end = 0
    /\ position = 0
    /\ cline = << >>
    /\ chunks = << >>
    /\ cpc = "idle"

\* run() at line 95, after check_args filled input_fastq_list (os.walk yields each
\* path once, and check_args raises when the list is empty).
Init ==
    /\ l \in {q \in Lists(Paths, MaxFiles) : q # << >> /\ Distinct(q)}
    /\ cpu \in 1..MaxCpu
    /\ d = EmptyDict
    /\ pc = "pool"
    /\ idx = 1
    /\ pool = "none"
    /\ workers = [w \in 1..cpu |-> [alive |-> FALSE, task |-> 0]]
    /\ jobs = << >>
    /\ completed = << >>
    /\ results = << >>
    /\ err = Exc("none")
    /\ FileIdle
    /\ DecodeIdle
    /\ ArgsIdle
    /\ SerialIdle
    /\ ChunkIdle

\* ------------------------------------------------ parse_fastq_parallel

\* d = dictionary: the master replaced by the fragment.
UpdateReplacing(into, dictionary) == dictionary

\* d.update(dictionary)
Update(into, dictionary) ==
    [k \in DOMAIN into \cup DOMAIN dictionary |->
        IF k \in DOMAIN dictionary THEN dictionary[k] ELSE into[k]]

\* pool = mp.Pool(self.cpu): the worker processes are started at once.
CreatePool ==
    /\ pc = "pool"
    /\ pool' = "open"
    /\ workers' = [w \in 1..cpu |-> [alive |-> TRUE, task |-> 0]]
    /\ pc' = "submit"
    /\ idx' = 1
    /\ UNCHANGED << l, cpu, d, jobs, completed, results, err >>
    /\ UNCHANGED << fileVars, decodeVars, argsVars, serialVars, chunkVars, out >>

\* One task per worker and no more: files beyond the pool size get no task.
apply_async_capped(js, f) ==
    IF Len(js) < cpu THEN Append(js, [f |-> f, status |-> "pending", value |-> None])
    ELSE js

\* job = pool.apply_async(self.parse_file, [f]); jobs.append(job)
apply_async(js, f) == Append(js, [f |-> f, status |-> "pending", value |-> None])

Submit ==
    /\ pc = "submit"
    /\ idx <= Len(l)
    /\ jobs' = apply_async(jobs, l[idx])
    /\ IF idx = Len(l) THEN pc' = "get" /\ idx' = 1
       ELSE pc' = pc /\ idx' = idx + 1
    /\ UNCHANGED << l, cpu, d, pool, workers, completed, results, err >>
    /\ UNCHANGED << fileVars, decodeVars, argsVars, serialVars, chunkVars, out >>

\* A task queue whose tasks never reach a worker.
PendingLost == {}

\* A worker process takes the oldest task of the pool's task queue.
Pending == {j \in 1..Len(jobs) : jobs[j].status = "pending"}
TakeTask(w) ==
    /\ pool \in {"open", "closed"}
    /\ workers[w].alive
    /\ workers[w].task = 0
    /\ Pending # {}
    /\ LET j == CHOOSE j \in Pending : \A k \in Pending : j <= k
       IN /\ jobs' = [jobs EXCEPT ![j].status = "running"]
          /\ workers' = [workers EXCEPT ![w].task = j]
    /\ UNCHANGED << l, cpu, d, pc, idx, pool, completed, results, err >>
    /\ UNCHANGED << fileVars, decodeVars, argsVars, serialVars, chunkVars, out >>

\* What the worker process does to the master dictionary when its parse_file
\* ends: nothing, my_dict is a dictionary of its own (line 810).
WorkerMaster(master, fragment) == master

\* The worker runs parse_file(f) to its end; the outcome is stored in the job.
FinishTask(w) ==
    /\ workers[w].alive
    /\ workers[w].task # 0
    /\ LET j == workers[w].task
           r == ParseFile(jobs[j].f)
       IN /\ jobs' = [jobs EXCEPT ![j].status = IF r.ok THEN "done" ELSE "failed",
                                  ![j].value = r]
          /\ completed' = Append(completed, j)
          /\ d' = WorkerMaster(d, r.dict)
    /\ workers' = [workers EXCEPT ![w].task = 0]
    /\ UNCHANGED << l, cpu, pc, idx, pool, results, err >>
    /\ UNCHANGED << fileVars, decodeVars, argsVars, serialVars, chunkVars, out >>

\* Results taken as they complete (imap_unordered): the idx-th finished job.
GetIndexAsCompleted(i, done) == IF i <= Len(done) THEN done[i] ELSE 0

\* The job the loop `for j in jobs` waits on: the idx-th submitted.
GetIndex(i, done) == i

\* A failed job taken as one that returned an empty fragment (skip and continue).
AsyncGetSkipFailed(job) ==
    [raised |-> FALSE, dict |-> job.value.dict, error |-> job.value.error]

\* j.get() on a finished job: the value parse_file returned, or its exception
\* raised again in the caller.
AsyncGet(job) ==
    [raised |-> ~job.value.ok, dict |-> job.value.dict, error |-> job.value.error]

\* Each fragment merged as soon as it is collected: d.update(j.get()).
AfterGetMerging(master, fragment) ==
    [k \in DOMAIN master \cup DOMAIN fragment |->
        IF k \in DOMAIN fragment THEN fragment[k] ELSE master[k]]

\* What collecting one result does to the master dictionary: nothing, the
\* fragment is appended to results (line 839).
AfterGet(master, fragment) == master

\* results.append(j.get())
Get ==
    /\ pc = "get"
    /\ LET j == GetIndex(idx, completed)
       IN /\ j \in 1..Len(jobs)
          /\ jobs[j].status \in {"done", "failed"}
          /\ LET r == AsyncGet(jobs[j])
             IN IF r.raised
                THEN /\ pc' = "raised"
                     /\ err' = r.error
                     /\ UNCHANGED << d, idx, results >>
                ELSE /\ results' = Append(results, r.dict)
                     /\ d' = AfterGet(d, r.dict)
                     /\ err' = err
                     /\ IF idx = Len(jobs) THEN pc' = "close" /\ idx' = 1
                        ELSE pc' = pc /\ idx' = idx + 1
    /\ UNCHANGED << l, cpu, pool, workers, jobs, completed >>
    /\ UNCHANGED << fileVars, decodeVars, argsVars, serialVars, chunkVars, out >>

\* pool.close()
Close ==
    /\ pc = "close"
    /\ pool' = "closed"
    /\ pc' = "join"
    /\ UNCHANGED << l, cpu, d, idx, workers, jobs, completed, results, err >>
    /\ UNCHANGED << fileVars, decodeVars, argsVars, serialVars, chunkVars, out >>

\* A worker of a closed pool exits once the task queue is drained.
WorkerExit(w) ==
    /\ pool = "closed"
    /\ workers[w].alive
    /\ workers[w].task = 0
    /\ Pending = {}
    /\ workers' = [workers EXCEPT ![w].alive = FALSE]
    /\ UNCHANGED << l, cpu, d, pc, idx, pool, jobs, completed, results, err >>
    /\ UNCHANGED << fileVars, decodeVars, argsVars, serialVars, chunkVars, out >>

\* pool.join(): returns when every worker process has exited.
Join ==
    /\ pc = "join"
    /\ \A w \in 1..cpu : ~workers[w].alive
    /\ pool' = "joined"
    /\ pc' = "merge"
    /\ idx' = 1
    /\ UNCHANGED << l, cpu, d, workers, jobs, completed, results, err >>
    /\ UNCHANGED << fileVars, decodeVars, argsVars, serialVars, chunkVars, out >>

\* for dictionary in results: d.update(dictionary)
Merge ==
    /\ pc = "merge"
    /\ idx <= Len(results)
    /\ d' = Update(d, results[idx])
    /\ IF idx = Len(results) THEN pc' = "returned" /\ idx' = 1
       ELSE pc' = pc /\ idx' = idx + 1
    /\ UNCHANGED << l, cpu, pool, workers, jobs, completed, results, err >>
    /\ UNCHANGED << fileVars, decodeVars, argsVars, serialVars, chunkVars, out >>

\* The check left out: the plots are made of whatever table there is.
DataCheckSkipped(table) == "plots"

\* if not self.sample_dict: raise Exception('No data!') else: make_fastq_plots
DataCheck(table) == IF DOMAIN table = {} THEN "nodata" ELSE "plots"

\* run(), lines 99-103: raise Exception('No data!') or make_fastq_plots.
CheckData ==
    /\ pc = "returned"
    /\ pc' = DataCheck(d)
    /\ UNCHANGED << l, cpu, d, idx, pool, workers, jobs, completed, results, err >>
    /\ UNCHANGED << fileVars, decodeVars, argsVars, serialVars, chunkVars, out >>

Next ==
    \/ CreatePool
    \/ Submit
    \/ \E w \in 1..cpu : TakeTask(w)
    \/ \E w \in 1..cpu : FinishTask(w)
    \/ Get
    \/ Close
    \/ \E w \in 1..cpu : WorkerExit(w)
    \/ Join
    \/ Merge
    \/ CheckData

Spec == Init /\ [][Next]_vars

\* run() at line 95 with a list over the files of EmptyRunPaths.
InitEmpty ==
    /\ l \in {q \in Lists(EmptyRunPaths, MaxFiles) : q # << >> /\ Distinct(q)}
    /\ cpu \in 1..MaxCpu
    /\ d = EmptyDict
    /\ pc = "pool"
    /\ idx = 1
    /\ pool = "none"
    /\ workers = [w \in 1..cpu |-> [alive |-> FALSE, task |-> 0]]
    /\ jobs = << >>
    /\ completed = << >>
    /\ results = << >>
    /\ err = Exc("none")
    /\ FileIdle
    /\ DecodeIdle
    /\ ArgsIdle
    /\ SerialIdle
    /\ ChunkIdle

SpecEmpty == InitEmpty /\ [][Next]_vars

\* The steps of the dispatcher (the main process) and those of worker process w.
Dispatcher == CreatePool \/ Submit \/ Get \/ Close \/ Join \/ Merge \/ CheckData
Worker(w) == w \in 1..cpu /\ (TakeTask(w) \/ FinishTask(w) \/ WorkerExit(w))

\* The same program under fair scheduling: the main process and every worker
\* process of the pool keep running while they have a step to take (parse_file
\* on a finite file is a finite loop, lines 813-821).
\* It is run on the lists over four of the files: two that parse (one of them a
\* gzip stream), one that repeats a read id of another, one that raises.
FairPaths == {PathA, PathC, PathD, PathE}
InitFair == Init /\ \A i \in 1..Len(l) : l[i] \in FairPaths
SpecFair ==
    /\ InitFair
    /\ [][Next]_vars
    /\ WF_vars(Dispatcher)
    /\ \A w \in 1..MaxCpu : WF_vars(Worker(w))

\* ------------------------------------- parse_file, one line at a time

\* Texts whose prefixes are the files parse_file is run on.
BlankLine == Bytes(<< "\n" >>)
\* A record with an empty quality line, one with a quality line shorter than its
\* sequence line, one with an empty sequence line.
TextNoQual == Record(Id3, Stamp1, Bytes(<< "A", "C" >>), << >>)
TextShortQual == Record(Id3, Stamp1, Bytes(<< "G", "C", "A" >>), Bytes(<< "5", "5" >>))
TextNoSeq == Record(Id3, Stamp1, << >>, Bytes(<< "5", "5" >>))
Texts ==
    { TextA \o TextB,
      TextC \o TextA,
      TextB \o TextF \o TextC,
      TextB \o << BlankLine >> \o TextC \o TextD,
      TextNoQual \o TextB \o TextC,
      TextShortQual \o TextNoSeq \o TextB }
FileTexts == {SubSeq(t, 1, n) : t \in Texts, n \in 0..MaxLines}

\* /in/Fail/s7.x_y.fastq, /in/pass/failed_2.fastq, /in/pass/a_b.c_d.fastq and
\* /in/x.y/pass_fail/_z.fastq.
PathH == << "/", "i", "n", "/", "F", "a", "i", "l", "/",
            "s", "7", ".", "x", "_", "y", ".", "f", "a", "s", "t", "q" >>
PathI == << "/", "i", "n", "/", "p", "a", "s", "s", "/",
            "f", "a", "i", "l", "e", "d", "_", "2", ".", "f", "a", "s", "t", "q" >>
PathJ == << "/", "i", "n", "/", "p", "a", "s", "s", "/",
            "a", "_", "b", ".", "c", "_", "d", ".", "f", "a", "s", "t", "q" >>
PathK == << "/", "i", "n", "/", "x", ".", "y", "/",
            "p", "a", "s", "s", "_", "f", "a", "i", "l", "/",
            "_", "z", ".", "f", "a", "s", "t", "q" >>
\* The paths parse_file is called with.
FilePaths == {PathA, PathB, PathC, PathE, PathH, PathI, PathJ, PathK}

\* parse_file(fpath) called (line 798), the text the file handle will yield
\* chosen, all else idle.
InitFile ==
    /\ l = << >>
    /\ cpu = 1
    /\ d = EmptyDict
    /\ pc = "idle"
    /\ idx = 1
    /\ pool = "none"
    /\ workers = [w \in 1..cpu |-> [alive |-> FALSE, task |-> 0]]
    /\ jobs = << >>
    /\ completed = << >>
    /\ results = << >>
    /\ err = Exc("none")
    /\ fpath \in FilePaths
    /\ content \in FileTexts
    /\ fh = content
    /\ st = LoopStart
    /\ ppc = "start"
    /\ ret = EmptyDict
    /\ file_name = << >>
    /\ file_flag = "none"
    /\ DecodeIdle
    /\ ArgsIdle
    /\ SerialIdle
    /\ ChunkIdle

\* name and flag are set and the file is opened (lines 799-812).
Open ==
    /\ ppc = "start"
    /\ file_name' = SampleName(fpath)
    /\ file_flag' = Flag(fpath)
    /\ ppc' = "loop"
    /\ out' = out                   \* no print between lines 798 and 823
    /\ UNCHANGED << fpath, content, fh, st, ret >>
    /\ UNCHANGED << dispatchVars, decodeVars, argsVars, serialVars, chunkVars >>

\* One iteration of the for loop (lines 813-820).
ReadLine ==
    /\ ppc = "loop"
    /\ fh # << >>
    /\ ~st.stopped
    /\ st' = LoopStep(st, Head(fh), file_name, file_flag)
    /\ fh' = Tail(fh)
    /\ ppc' = IF Failed(st') THEN "raised" ELSE "loop"
    /\ out' = out
    /\ UNCHANGED << fpath, content, ret, file_name, file_flag >>
    /\ UNCHANGED << dispatchVars, decodeVars, argsVars, serialVars, chunkVars >>

\* The loop is over: the last group is decoded and my_dict returned (821-823).
Final ==
    /\ ppc = "loop"
    /\ (fh = << >> \/ st.stopped)
    /\ st' = FinalGroup(st, file_name, file_flag)
    /\ IF Failed(st') THEN ppc' = "raised" /\ ret' = ret
       ELSE ppc' = "returned" /\ ret' = st'.my_dict
    /\ out' = out
    /\ UNCHANGED << fpath, content, fh, file_name, file_flag >>
    /\ UNCHANGED << dispatchVars, decodeVars, argsVars, serialVars, chunkVars >>

NextFile == Open \/ ReadLine \/ Final

SpecFile == InitFile /\ [][NextFile]_vars

\* --------------------------- parse_fastq_to_dict, called on one group

MaxSeqLen == 8
MaxQualLen == 3

\* The byte b, n times.
Rep(b, n) == [i \in 1..n |-> b]
\* Sequence lines of up to MaxSeqLen bases: G's, C's, A's and lower-case g's.
SeqLines ==
    {Rep(Ord("G"), t[1]) \o Rep(Ord("C"), t[2]) \o Rep(Ord("A"), t[3])
        \o Rep(Ord("g"), t[4]) :
     t \in {u \in (0..MaxSeqLen) \X (0..MaxSeqLen) \X (0..MaxSeqLen) \X (0..MaxSeqLen) :
              u[1] + u[2] + u[3] + u[4] <= MaxSeqLen}}
\* A read of 40 bases, 23 of them G.
Seq40 == Rep(Ord("G"), 23) \o Rep(Ord("A"), 17)
SeqsFew == {<< >>, Bytes(<< "A", "T" >>), Bytes(<< "G", "G", "C", "C", "A", "T" >>),
            Seq40}
\* Quality lines of up to MaxQualLen characters: the Phred+33 scores 2, 30, 34.
QualBytes == {Ord("#"), Ord("?"), Ord("C")}
QualLines == UNION {[1..n -> QualBytes] : n \in 0..MaxQualLen}
QualsFew == {<< >>, Bytes(<< "5" >>), Bytes(<< "?", "A", "C" >>),
             Bytes(<< "?", "A", "C", "?", "A", "C" >>)}
\* Header lines: two well-formed ones, one of six tokens, an empty one, one of
\* four tokens, one whose fifth token has no '=', and ones whose text after '='
\* is a letter, is empty, is the 30th of February, is followed by a second '='.
GoodHeader == Rstrip(Header(Id1, Stamp1))
TwoEquals == Rstrip(Header(Id3, Stamp1 \o Bytes(<< "=", "x" >>)))
HeaderLines ==
    { GoodHeader,
      Rstrip(Header(Id2, Stamp2)),
      Rstrip(Header(Id4, Stamp1)) \o Bytes(<< " ", "x" >>),
      << >>,
      Bytes(<< "@", "r", "5", " ", "a", " ", "b", " ", "c" >>),
      Bytes(<< "@", "r", "3", " ", "a", " ", "b", " ", "c", " ", "t" >>),
      Rstrip(Header(Id3, Bytes(<< "x" >>))),
      Rstrip(Header(Id3, << >>)),
      Rstrip(Header(Id3, Bytes(<< "2", "0", "1", "8", "0", "2", "3", "0" >>))),
      TwoEquals }
Plus == Bytes(<< "+" >>)
\* The lists parse_fastq_to_dict is called with: four stripped lines, and one
\* list of three.
Groups ==
    {<< h, s, Plus, q >> : h \in HeaderLines, s \in SeqsFew, q \in QualsFew}
    \cup {<< GoodHeader, s, Plus, q >> : s \in SeqLines, q \in QualsFew}
    \cup {<< GoodHeader, s, Plus, q >> : s \in SeqsFew, q \in QualLines}
    \cup {<< GoodHeader, Bytes(<< "A", "T" >>), Plus >>}
\* The name and flag parse_file passes for /in/pass/s1_a.fastq.
DecodeName == SampleName(PathA)
DecodeFlag == Flag(PathA)
\* my_dict at the call: empty, or holding a record of r1 already.
Tables ==
    {EmptyDict,
     SetItem(EmptyDict, Id1,
             MyObjects(DecodeName, 2, DecodeFlag, [num |-> 20, den |-> 1], 50,
                       parse(Stamp2)))}

\* run() and parse_fastq_parallel not running.
DispatchIdle ==
    /\ l = << >>
    /\ cpu = 1
    /\ d = EmptyDict
    /\ pc = "idle"
    /\ idx = 1
    /\ pool = "none"
    /\ workers = [w \in 1..cpu |-> [alive |-> FALSE, task |-> 0]]
    /\ jobs = << >>
    /\ completed = << >>
    /\ results = << >>
    /\ err = Exc("none")

\* parse_fastq_to_dict(rec, before, name, flag) about to run (line 241).
InitDecode ==
    /\ DispatchIdle
    /\ FileIdle
    /\ ArgsIdle
    /\ SerialIdle
    /\ ChunkIdle
    /\ rec \in Groups
    /\ before \in Tables
    /\ after = before
    /\ exc = Exc("none")
    /\ dpc = "call"

\* The whole call (lines 242-268).
DecodeCall ==
    /\ dpc = "call"
    /\ LET r == parse_fastq_to_dict(rec, before, DecodeName, DecodeFlag)
       IN IF r.ok
          THEN after' = r.dict /\ exc' = exc /\ dpc' = "returned"
          ELSE after' = after /\ exc' = r.error /\ dpc' = "raised"
    /\ UNCHANGED << rec, before >>
    /\ UNCHANGED << dispatchVars, fileVars, argsVars, serialVars, chunkVars, out >>

NextDecode == DecodeCall

SpecDecode == InitDecode /\ [][NextDecode]_vars

\* ----------------------------------------------------------- check_args

\* Most directory entries under the input folder.
MaxEntries == 4

\* args.fastq, args.summary and args.output when given (None and '' are both
\* the empty text here: the code only tests them for truth).
InFolder == << "/", "i", "n" >>
SummaryFile == << "s", ".", "t", "x", "t" >>
OutFolder == << "/", "o", "u", "t" >>
\* self.summary_dict when check_args runs: the empty defaultdict of line 67
\* (parse_summary, the only writer, runs later).
summary_dict == EmptyDict

\* os.path.join(root, filename)
PathJoin(root, filename) == root \o << "/" >> \o filename

\* A directory entry: the directory it is in, its name, and whether it is a
\* regular file, a directory, or a symbolic link to nothing.
Entry(parent, name, kind) == [parent |-> parent, name |-> name, kind |-> kind]
PassDir == PathJoin(InFolder, << "p", "a", "s", "s" >>)
FailDir == PathJoin(InFolder, << "f", "a", "i", "l" >>)
NamedDir == PathJoin(InFolder, << "x", ".", "f", "a", "s", "t", "q" >>)
DeepDir == PathJoin(PassDir, << "d", "e", "e", "p" >>)
Entries ==
    { Entry(InFolder, << "s", "1", "_", "c", ".", "f", "a", "s", "t", "q" >>, "file"),
      Entry(InFolder, << "p", "a", "s", "s" >>, "dir"),
      Entry(PassDir, << "s", "1", "_", "a", ".", "f", "a", "s", "t", "q" >>, "file"),
      Entry(InFolder, << "f", "a", "i", "l" >>, "dir"),
      Entry(FailDir, << "s", "4", ".", "f", "a", "s", "t", "q", ".", "g", "z" >>, "file"),
      Entry(InFolder, << "n", "o", "t", "e", "s", ".", "t", "x", "t" >>, "file"),
      Entry(InFolder, << "x", ".", "f", "a", "s", "t", "q" >>, "dir"),
      Entry(NamedDir, << "y", ".", "f", "a", "s", "t", "q" >>, "file"),
      Entry(InFolder, << "l", "o", "s", "t", ".", "f", "a", "s", "t", "q" >>, "link"),
      Entry(PassDir, << "s", ".", "f", "a", "s", "t", "q", ".", "g", "z", ".", "t", "m", "p" >>, "file"),
      Entry(PassDir, << "d", "e", "e", "p" >>, "dir"),
      Entry(DeepDir, << "z", ".", "f", "a", "s", "t", "q", ".", "g", "z" >>, "file"),
      Entry(InFolder, << "A", ".", "F", "A", "S", "T", "Q" >>, "file") }
\* Every entry is in the input folder or in a directory of the tree.
Closed(t) ==
    \A e \in t :
        \/ e.parent = InFolder
        \/ \E p \in t : p.kind = "dir" /\ PathJoin(p.parent, p.name) = e.parent
Trees == {t \in SUBSET Entries : Cardinality(t) <= MaxEntries /\ Closed(t)}

\* os.path.isfile(path)
IsFile(t, path) == \E e \in t : e.kind = "file" /\ PathJoin(e.parent, e.name) = path
\* What os.walk yields for the directory `top`: the paths of its directories,
\* and the names of all its other entries.
Directories(t, top) ==
    {PathJoin(top, e.name) : e \in {x \in t : x.parent = top /\ x.kind = "dir"}}
Filenames(t, top) ==
    {e.name : e \in {x \in t : x.parent = top /\ x.kind # "dir"}}
\* The orders a set can be listed in.
Orders(S) ==
    {q \in Lists(S, Cardinality(S)) : Len(q) = Cardinality(S) /\ Distinct(q)}

\* Any name is taken, a file or not.
SelectedByName(t, absolute_path, filename) ==
    \/ EndsWith(filename, << ".", "f", "a", "s", "t", "q" >>)
    \/ EndsWith(filename, << ".", "f", "a", "s", "t", "q", ".", "g", "z" >>)

\* os.path.isfile(absolute_path) and filename.endswith(('.fastq','.fastq.gz'))
Selected(t, absolute_path, filename) ==
    /\ IsFile(t, absolute_path)
    /\ \/ EndsWith(filename, << ".", "f", "a", "s", "t", "q" >>)
       \/ EndsWith(filename, << ".", "f", "a", "s", "t", "q", ".", "g", "z" >>)

\* The input test left out.
NoInputIgnored(fastq, summary) == FALSE

\* not self.input_folder and not self.input_summary
NoInput(fastq, summary) == fastq = << >> /\ summary = << >>

\* The empty list let through.
NoFastqIgnored(list) == FALSE

\* not self.input_fastq_list
NoFastq(list) == list = << >>

\* run() about to call check_args (line 92), the program started from the
\* command line (so that the global `parser` is defined), nothing parsed yet.
InitArgs ==
    /\ DispatchIdle
    /\ FileIdle
    /\ DecodeIdle
    /\ SerialIdle
    /\ ChunkIdle
    /\ input_folder \in {<< >>, InFolder}
    /\ input_summary \in {<< >>, SummaryFile}
    /\ output_folder \in {<< >>, OutFolder}
    /\ tree \in IF input_folder = << >> THEN {{}} ELSE Trees
    /\ created = {}
    /\ walk = [stack |-> << >>, root |-> << >>, filenames |-> {}]
    /\ exit_code = 0
    /\ apc = "args"

\* Lines 131-138: both inputs or no input print the help and sys.exit(1).
CheckInputs ==
    /\ apc = "args"
    /\ IF input_folder # << >> /\ DOMAIN summary_dict # {}
       THEN apc' = "exited" /\ exit_code' = 1
       ELSE IF NoInput(input_folder, input_summary)
       THEN apc' = "exited" /\ exit_code' = 1
       ELSE apc' = "output" /\ exit_code' = exit_code
    /\ UNCHANGED << input_folder, input_summary, output_folder, tree, created, walk >>
    /\ UNCHANGED << dispatchVars, fileVars, decodeVars, serialVars, chunkVars, out >>

\* Lines 140-147: no output folder is sys.exit(1); else the folder is made, and
\* os.walk is set up on the input folder when there is one.
CheckOutput ==
    /\ apc = "output"
    /\ IF output_folder = << >>
       THEN apc' = "exited" /\ exit_code' = 1 /\ UNCHANGED << created, walk >>
       ELSE /\ created' = created \cup {output_folder}
            /\ exit_code' = exit_code
            /\ IF input_folder # << >>
               THEN apc' = "walk" /\ walk' = [walk EXCEPT !.stack = << input_folder >>]
               ELSE apc' = "returned" /\ walk' = walk
    /\ UNCHANGED << input_folder, input_summary, output_folder, tree >>
    /\ UNCHANGED << dispatchVars, fileVars, decodeVars, serialVars, chunkVars, out >>

\* os.walk yields the next directory (line 148): its sub-directories will be
\* walked next, in the order the system lists them.
WalkNext ==
    /\ apc = "walk"
    /\ walk.filenames = {}
    /\ walk.stack # << >>
    /\ \E order \in Orders(Directories(tree, Head(walk.stack))) :
          walk' = [stack |-> order \o Tail(walk.stack),
                   root |-> Head(walk.stack),
                   filenames |-> Filenames(tree, Head(walk.stack))]
    /\ UNCHANGED << input_folder, input_summary, output_folder, tree, created,
                    exit_code, apc >>
    /\ UNCHANGED << dispatchVars, fileVars, decodeVars, serialVars, chunkVars, out >>

\* One iteration of `for filename in filenames` (lines 149-152).
VisitFile ==
    /\ apc = "walk"
    /\ \E filename \in walk.filenames :
          /\ l' = IF Selected(tree, PathJoin(walk.root, filename), filename)
                  THEN Append(l, PathJoin(walk.root, filename))
                  ELSE l
          /\ walk' = [walk EXCEPT !.filenames = @ \ {filename}]
    /\ UNCHANGED << input_folder, input_summary, output_folder, tree, created,
                    exit_code, apc >>
    /\ UNCHANGED << cpu, d, pc, idx, pool, workers, jobs, completed, results, err >>
    /\ UNCHANGED << fileVars, decodeVars, serialVars, chunkVars, out >>

\* The walk is over (lines 155-156): an empty list raises Exception.
WalkEnd ==
    /\ apc = "walk"
    /\ walk.filenames = {}
    /\ walk.stack = << >>
    /\ IF NoFastq(l)
       THEN apc' = "raised" /\ err' = Exc("Exception")
       ELSE apc' = "returned" /\ err' = err
    /\ UNCHANGED << input_folder, input_summary, output_folder, tree, created, walk,
                    exit_code >>
    /\ UNCHANGED << l, cpu, d, pc, idx, pool, workers, jobs, completed, results >>
    /\ UNCHANGED << fileVars, decodeVars, serialVars, chunkVars, out >>

\* check_args returned to run() (lines 95-97, 105): with an input folder
\* parse_fastq_parallel is called, else parse_summary.
StartParse ==
    /\ apc = "returned"
    /\ pc = "idle"
    /\ pc' = IF input_folder # << >> THEN "pool" ELSE "summary"
    /\ UNCHANGED << l, cpu, d, idx, pool, workers, jobs, completed, results, err >>
    /\ UNCHANGED << fileVars, decodeVars, argsVars, serialVars, chunkVars, out >>

NextArgs ==
    \/ CheckInputs
    \/ CheckOutput
    \/ WalkNext
    \/ VisitFile
    \/ WalkEnd
    \/ StartParse

SpecArgs == InitArgs /\ [][NextArgs]_vars

\* ------------------------------------- parse_fastq, the serial parser

MaxSerial == 2

\* '.'.join(parts)
RECURSIVE DotJoin(_)
DotJoin(parts) ==
    IF parts = << >> THEN << >>
    ELSE IF Len(parts) = 1 THEN parts[1]
    ELSE parts[1] \o << "." >> \o DotJoin(Tail(parts))

\* filename_no_gz = '.'.join(filename.split('.')[:-1])
FilenameNoGz(f) ==
    LET parts == SplitOn(Basename(f), ".", << >>)
    IN DotJoin(SubSeq(parts, 1, Len(parts) - 1))

\* "/tmp/" + filename_no_gz
TmpPath(f) == << "/", "t", "m", "p", "/" >> \o FilenameNoGz(f)

\* What pigz -d -k -f -c writes on its standard output for a gzip stream: the
\* decompressed text.
Pigz(f) == Disk(f).raws

\* A message printed on standard output: its text, the name (of the file or of
\* the sample), the flag and the number of reads it shows (the file size and the
\* elapsed time shown are left out).
Notice(text, name, flag, reads) ==
    [text |-> text, name |-> name, flag |-> flag, reads |-> reads]

\* The print of lines 524-534: the third form says that pass reads are assumed.
FlagNotice(f, name) ==
    IF Contains(f, << "f", "a", "i", "l" >>) THEN Notice("Parsing", name, "fail", 0)
    ELSE IF Contains(f, << "p", "a", "s", "s" >>) THEN Notice("Parsing", name, "pass", 0)
    ELSE Notice("Parsing, assuming pass", name, "pass", 0)

\* /in/fail/n.txt: a file that is no fastq file by its name.
PathT == << "/", "i", "n", "/", "f", "a", "i", "l", "/", "n", ".", "t", "x", "t" >>
\* The files parse_fastq is called with.
SerialPaths == {PathA, PathB, PathC, PathD, PathE, PathF, PathL, PathT}

\* parse_fastq(l, d) called with a list of files and an empty dictionary.
InitSerial ==
    /\ l \in {q \in Lists(SerialPaths, MaxSerial) : q # << >> /\ Distinct(q)}
    /\ cpu = 1
    /\ d = EmptyDict
    /\ pc = "idle"
    /\ idx = 1
    /\ pool = "none"
    /\ workers = [w \in 1..cpu |-> [alive |-> FALSE, task |-> 0]]
    /\ jobs = << >>
    /\ completed = << >>
    /\ results = << >>
    /\ err = Exc("none")
    /\ FileIdle
    /\ DecodeIdle
    /\ ArgsIdle
    /\ out = << >>
    /\ sfile = << >>
    /\ sname = << >>
    /\ sflag = "none"
    /\ gz_flag = 0
    /\ tmp = EmptyDict
    /\ spc = "file"
    /\ ChunkIdle

\* The top of the loop `for f in l` (lines 494-509): the name, and for a
\* .fastq.gz file the decompression to /tmp, f becoming the path of the copy.
SerialFile ==
    /\ spc = "file"
    /\ idx <= Len(l)
    /\ sname' = SampleName(l[idx])
    /\ IF EndsWith(l[idx], << ".", "f", "a", "s", "t", "q", ".", "g", "z" >>)
       THEN /\ out' = Append(out, Notice("Decompressing", Basename(l[idx]), "", 0))
            /\ tmp' = SetItem(tmp, TmpPath(l[idx]), Pigz(l[idx]))
            /\ sfile' = TmpPath(l[idx])
            /\ gz_flag' = 1
       ELSE /\ out' = out
            /\ tmp' = tmp
            /\ sfile' = l[idx]
            /\ gz_flag' = 0
    /\ spc' = "ext"
    /\ UNCHANGED << sflag >>
    /\ UNCHANGED << dispatchVars, fileVars, decodeVars, argsVars, chunkVars >>

\* if f.endswith(".fastq"): pass / else: raise Exception (lines 510-513).
SerialExt ==
    /\ spc = "ext"
    /\ IF EndsWith(sfile, << ".", "f", "a", "s", "t", "q" >>)
       THEN spc' = "flag" /\ err' = err
       ELSE spc' = "raised" /\ err' = Exc("Exception")
    /\ UNCHANGED << l, cpu, d, pc, idx, pool, workers, jobs, completed, results >>
    /\ UNCHANGED << out, sfile, sname, sflag, gz_flag, tmp >>
    /\ UNCHANGED << fileVars, decodeVars, argsVars, chunkVars >>

\* flag = 'pass'; if 'fail' in f: flag = 'fail', and the print (lines 524-534).
SerialFlag ==
    /\ spc = "flag"
    /\ sflag' = Flag(sfile)
    /\ out' = Append(out, FlagNotice(sfile, sname))
    /\ spc' = "read"
    /\ UNCHANGED << sfile, sname, gz_flag, tmp >>
    /\ UNCHANGED << dispatchVars, fileVars, decodeVars, argsVars, chunkVars >>

\* The lines open(f, 'rb') yields: those of the copy in /tmp or of the file.
SerialLines == IF gz_flag = 1 THEN tmp[sfile] ELSE Disk(sfile).raws

\* The read loop (lines 749-762), every group decoded into d itself.
SerialRead ==
    /\ spc = "read"
    /\ LET start == [LoopStart EXCEPT !.my_dict = d]
           loop == FinalGroup(ReadLoop(start, SerialLines, sname, sflag), sname, sflag)
       IN /\ d' = loop.my_dict
          /\ IF Failed(loop) THEN spc' = "raised" /\ err' = loop.error
             ELSE spc' = "took" /\ err' = err
    /\ UNCHANGED << l, cpu, pc, idx, pool, workers, jobs, completed, results >>
    /\ UNCHANGED << out, sfile, sname, sflag, gz_flag, tmp >>
    /\ UNCHANGED << fileVars, decodeVars, argsVars, chunkVars >>

\* The print of line 792, the copy in /tmp removed (lines 795-796), and the
\* next file.
SerialTook ==
    /\ spc = "took"
    /\ out' = Append(out, Notice("took", << >>, "", Len(SerialLines) \div 4))
    /\ tmp' = IF gz_flag = 1 THEN [k \in DOMAIN tmp \ {sfile} |-> tmp[k]] ELSE tmp
    /\ IF idx = Len(l) THEN spc' = "returned" /\ idx' = idx
       ELSE spc' = "file" /\ idx' = idx + 1
    /\ UNCHANGED << l, cpu, d, pc, pool, workers, jobs, completed, results, err >>
    /\ UNCHANGED << sfile, sname, sflag, gz_flag >>
    /\ UNCHANGED << fileVars, decodeVars, argsVars, chunkVars >>

NextSerial == SerialFile \/ SerialExt \/ SerialFlag \/ SerialRead \/ SerialTook

SpecSerial == InitSerial /\ [][NextSerial]_vars

\* ------------------------------------------------------------ chunkify

MaxRecords == 3
MaxChunk == 16

\* The position file_handle is at after readline() from position p of the
\* bytes: just after the next line end, or the end of the file; p itself when p
\* is at or beyond the end.
LineEnd(bytes, p) ==
    IF p >= Len(bytes) THEN p
    ELSE IF \E i \in (p + 1)..Len(bytes) : bytes[i] = Ord("\n")
    THEN CHOOSE i \in (p + 1)..Len(bytes) :
            bytes[i] = Ord("\n") /\ \A j \in (p + 1)..(i - 1) : bytes[j] # Ord("\n")
    ELSE Len(bytes)
\* The bytes readline() returns from position p (b'' at or beyond the end).
Readline(bytes, p) == SubSeq(bytes, p + 1, LineEnd(bytes, p))

\* The scan stopped at every line, header or not.
AnyLine(text) == TRUE

\* b'runid' in line
HasRunid(text) == Contains(text, Bytes(<< "r", "u", "n", "i", "d" >>))

\* The bytes of a record whose header names a runid, and the files chunkify is
\* run on: 0 to MaxRecords records, the same with the last line end missing,
\* and a file whose first line is no header.
ChunkRecord ==
    Bytes(<< "@", "r", "u", "n", "i", "d", "\n", "A", "C", "\n", "+", "\n",
             "5", "5", "\n" >>)
RECURSIVE Records(_)
Records(n) == IF n = 0 THEN << >> ELSE ChunkRecord \o Records(n - 1)
ChunkFiles ==
    {Records(n) : n \in 0..MaxRecords}
    \cup {SubSeq(Records(n), 1, Len(Records(n)) - 1) : n \in 1..MaxRecords}
    \cup {Bytes(<< "x", "\n" >>) \o Records(2)}

\* chunkify(f) called (lines 200-208): the file opened, chunk_end = tell() = 0.
\* size is 4 MiB in the code; the files here are a few lines long, and so are
\* the sizes.
InitChunk ==
    /\ l = << >>
    /\ cpu = 1
    /\ d = EmptyDict
    /\ pc = "idle"
    /\ idx = 1
    /\ pool = "none"
    /\ workers = [w \in 1..cpu |-> [alive |-> FALSE, task |-> 0]]
    /\ jobs = << >>
    /\ completed = << >>
    /\ results = << >>
    /\ err = Exc("none")
    /\ FileIdle
    /\ DecodeIdle
    /\ ArgsIdle
    /\ SerialIdle
    /\ data \in ChunkFiles
    /\ file_end = Len(data)
    /\ size \in 1..MaxChunk
    /\ pos = 0
    /\ chunk_start = 0
    /\ chunk_end = 0
    /\ position = 0
    /\ cline = << >>
    /\ chunks = << >>
    /\ cpc = "seek"

\* chunk_start = chunk_end; file_handle.seek(size, 1) (lines 210-211).
ChunkSeek ==
    /\ cpc = "seek"
    /\ chunk_start' = chunk_end
    /\ pos' = pos + size
    /\ cpc' = "skip"
    /\ UNCHANGED << data, file_end, size, chunk_end, position, cline, chunks >>
    /\ UNCHANGED << dispatchVars, fileVars, decodeVars, argsVars, serialVars, out >>

\* find_end_of_chunk, lines 233-235: the incomplete line is read, position taken,
\* and the next line read.
SkipLine ==
    /\ cpc = "skip"
    /\ position' = LineEnd(data, pos)
    /\ cline' = Readline(data, position')
    /\ pos' = LineEnd(data, position')
    /\ cpc' = "scan"
    /\ UNCHANGED << data, file_end, size, chunk_start, chunk_end, chunks >>
    /\ UNCHANGED << dispatchVars, fileVars, decodeVars, argsVars, serialVars, out >>

\* One iteration of `while line and b'runid' not in line` (lines 236-238).
ScanLine ==
    /\ cpc = "scan"
    /\ cline # << >> /\ ~HasRunid(cline)
    /\ position' = pos
    /\ cline' = Readline(data, pos)
    /\ pos' = LineEnd(data, pos)
    /\ UNCHANGED << data, file_end, size, chunk_start, chunk_end, chunks, cpc >>
    /\ UNCHANGED << dispatchVars, fileVars, decodeVars, argsVars, serialVars, out >>

\* The loop is left: file_handle.seek(position) (line 239).
SeekBack ==
    /\ cpc = "scan"
    /\ ~(cline # << >> /\ ~HasRunid(cline))
    /\ pos' = position
    /\ cpc' = "yield"
    /\ UNCHANGED << data, file_end, size, chunk_start, chunk_end, position, cline,
                    chunks >>
    /\ UNCHANGED << dispatchVars, fileVars, decodeVars, argsVars, serialVars, out >>

\* chunk_end = tell(); yield chunk_start, chunk_end - chunk_start; break when
\* chunk_end >= file_end (lines 213-216).
YieldChunk ==
    /\ cpc = "yield"
    /\ chunk_end' = pos
    /\ chunks' = Append(chunks, << chunk_start, chunk_end' - chunk_start >>)
    /\ cpc' = IF chunk_end' >= file_end THEN "done" ELSE "seek"
    /\ UNCHANGED << data, file_end, size, pos, chunk_start, position, cline >>
    /\ UNCHANGED << dispatchVars, fileVars, decodeVars, argsVars, serialVars, out >>

NextChunk == ChunkSeek \/ SkipLine \/ ScanLine \/ SeekBack \/ YieldChunk

SpecChunk == InitChunk /\ [][NextChunk]_vars

\* ------------------------------------------------------------ the claims

\* parse_fastq_parallel has returned to run().
Returned == pc \in {"returned", "plots", "nodata"}
\* parse_fastq_parallel has stopped, either way.
Stopped == Returned \/ pc = "raised"
Finished(j) == jobs[j].status \in {"done", "failed"}
Keys(dict) == DOMAIN dict
SharedKey(a, b) == Keys(a) \cap Keys(b) # {}

\* The format of section 6, stated on the raw text: a group of four lines is a
\* well-formed record when its header has five tokens, the fifth of the form
\* key=date, and its sequence and quality lines are not empty.
WellFormedRecord(g) ==
    LET tokens == SplitWs(g[1], << >>)
    IN /\ Len(tokens) >= 5
       /\ Len(tokens[1]) >= 1
       /\ Len(SplitOn(tokens[5], Ord("="), << >>)) >= 2
       /\ IsDateText(SplitOn(tokens[5], Ord("="), << >>)[2])
       /\ Rstrip(g[2]) # << >>
       /\ Rstrip(g[4]) # << >>
Group(raws, n) == SubSeq(raws, 4 * n - 3, 4 * n)
\* The read id of a header line: its first token without the leading character.
ReadId(h) == Drop(SplitWs(h, << >>)[1], 1)
ReadIds(raws) == {ReadId(raws[4 * n - 3]) : n \in 1..(Len(raws) \div 4)}
\* N >= 1 well-formed records with pairwise distinct read ids.
WellFormedText(raws) ==
    /\ Len(raws) >= 4
    /\ Len(raws) % 4 = 0
    /\ \A n \in 1..(Len(raws) \div 4) : WellFormedRecord(Group(raws, n))
    /\ Cardinality(ReadIds(raws)) = Len(raws) \div 4
\* Per file of the disk: whether the text its handle yields is such a text (a
\* file named .gz that is no gzip stream yields none), its read ids, its number
\* of records, and whether parse_file raises on it.
TextFacts(f) ==
    [wellformed |-> OpenFile(f).ok /\ WellFormedText(OpenFile(f).raws),
     ids |-> ReadIds(Disk(f).raws),
     records |-> Len(Disk(f).raws) \div 4,
     fails |-> ~ParseFile(f).ok]
RECURSIVE FactsAll(_)
FactsAll(S) ==
    IF S = {} THEN << >>
    ELSE LET f == CHOOSE p \in S : TRUE
         IN (f :> TextFacts(f)) @@ FactsAll(S \ {f})
FactTable == FactsAll(Paths)
WellFormedFile(f) == FactTable[f].wellformed
IdsOfPath(f) == FactTable[f].ids
RecordsOfPath(f) == FactTable[f].records
Fails(f) == FactTable[f].fails

\* C1: a read id found in two fragments ends the run in a duplicate-read-id
\* error: parse_fastq_parallel never returns after merging two fragments that
\* share a key.
C1_DuplicateIsFatal ==
    Returned =>
        \A i, j \in 1..Len(results) : i # j => ~SharedKey(results[i], results[j])

\* C2: the master dictionary changes only in a step of the dispatcher's merge
\* loop, taken when the pool is joined and no job is pending or running; no step
\* of a worker changes it.
C2_MasterOnlyAfterBarrier ==
    [][d' # d =>
        /\ pc = "merge"
        /\ pool = "joined"
        /\ \A j \in 1..Len(jobs) : Finished(j)
        /\ \A w \in 1..cpu : workers[w].task = 0 /\ ~workers[w].alive
        /\ Len(jobs) = Len(l)
        /\ jobs' = jobs /\ workers' = workers /\ completed' = completed]_vars
\* The master was written after two tasks had run.
C2_Witness ==
    /\ pc = "merge"
    /\ idx = 2
    /\ Len(jobs) >= 2
    /\ Keys(d) # {}

\* The master dictionary of the serial run: the fragments of the files of the list
\* merged in list order.
RECURSIVE SerialMaster(_)
SerialMaster(files) ==
    IF files = << >> THEN EmptyDict
    ELSE LET front == SubSeq(files, 1, Len(files) - 1)
             last == ParseFile(files[Len(files)]).dict
         IN [k \in Keys(SerialMaster(front)) \cup Keys(last) |->
                IF k \in Keys(last) THEN last[k] ELSE SerialMaster(front)[k]]

\* C3: whatever the pool size and the order in which the tasks finish, a run that
\* returns leaves the master dictionary of the serial run on the same list.
C3_Deterministic == Returned => d = SerialMaster(l)
\* A run that returned although a later file was finished before an earlier one
\* holding the same read id.
C3_Witness ==
    /\ Returned
    /\ \E a, b \in 1..Len(completed) :
        /\ a < b
        /\ completed[a] > completed[b]
        /\ SharedKey(jobs[completed[a]].value.dict, jobs[completed[b]].value.dict)

\* C4: a file of N >= 1 well-formed records with distinct read ids gives a fragment
\* of exactly N entries keyed by those read ids, and, when it is the only file of
\* the list, a master dictionary of exactly those N entries.
C4_FragmentHasNEntries ==
    /\ \A j \in 1..Len(jobs) :
        (Finished(j) /\ WellFormedFile(jobs[j].f)) =>
            /\ jobs[j].status = "done"
            /\ Keys(jobs[j].value.dict) = IdsOfPath(jobs[j].f)
            /\ Cardinality(Keys(jobs[j].value.dict)) = RecordsOfPath(jobs[j].f)
    /\ (Stopped /\ Len(l) = 1 /\ WellFormedFile(l[1])) =>
            /\ Returned
            /\ Keys(d) = IdsOfPath(l[1])
            /\ Cardinality(Keys(d)) = RecordsOfPath(l[1])
\* The run on the one file of three records has returned.
C4_Witness ==
    /\ Returned
    /\ Len(l) = 1
    /\ WellFormedFile(l[1])
    /\ RecordsOfPath(l[1]) = 3
    /\ Cardinality(Keys(d)) = 3

\* C5: for a list of two files whose fragments share no read id, the master
\* dictionary after the merge has as many entries as both fragments together and
\* holds every entry of each, whichever of the two is merged first.
C5_DisjointMerge ==
    (Returned /\ Len(results) = 2 /\ ~SharedKey(results[1], results[2])) =>
        /\ Cardinality(Keys(d)) =
               Cardinality(Keys(results[1])) + Cardinality(Keys(results[2]))
        /\ \A i \in 1..2 : \A k \in Keys(results[i]) : k \in Keys(d) /\ d[k] = results[i][k]
\* Two disjoint fragments, the larger one merged last, have been merged.
C5_Witness ==
    /\ Returned
    /\ Len(results) = 2
    /\ ~SharedKey(results[1], results[2])
    /\ Cardinality(Keys(results[1])) = 1
    /\ Cardinality(Keys(results[2])) = 3

\* Some file of the list makes parse_file raise.
SomeFileFails == \E i \in 1..Len(l) : Fails(l[i])

\* C6: when parse_file raises for some file of the list, parse_fastq_parallel
\* never returns, the master dictionary stays as it was before the call (empty)
\* and run() does not reach make_fastq_plots.
C6_OneFailureAborts ==
    SomeFileFails =>
        /\ ~Returned
        /\ pc # "merge"
        /\ Keys(d) = {}
\* The run was aborted although another file had been parsed into a fragment.
C6_Witness ==
    /\ pc = "raised"
    /\ Keys(d) = {}
    /\ \E j \in 1..Len(jobs) : jobs[j].status = "done" /\ Keys(jobs[j].value.dict) # {}

\* C7: whenever parse_fastq_parallel has stopped, by returning or by raising, the
\* pool is closed and joined and no worker process is alive.
C7_WorkersCleanedUp ==
    Stopped => (pool = "joined" /\ \A w \in 1..cpu : ~workers[w].alive)

\* C8: the exception parse_fastq_parallel raises carries the kind of the failure
\* and the path of a file of the list that parse_file failed on.
C8_ErrorNamesFile ==
    pc = "raised" =>
        /\ err.kind # "none"
        /\ \E i \in 1..Len(l) : err.filename = l[i] /\ Fails(l[i])

\* How many times a worker has run job j to its end.
TimesRun(j) == Cardinality({k \in 1..Len(completed) : completed[k] = j})

\* C9: one task per file: the jobs are the files of the list in order (as many
\* jobs as files once the submit loop is over), every job is run at most once,
\* and when parse_fastq_parallel returns every job has been run exactly once.
C9_OneTaskPerFile ==
    /\ Len(jobs) <= Len(l)
    /\ \A j \in 1..Len(jobs) : jobs[j].f = l[j]
    /\ pc \notin {"pool", "submit", "idle"} => Len(jobs) = Len(l)
    /\ \A j \in 1..Len(jobs) : TimesRun(j) = IF Finished(j) THEN 1 ELSE 0
    /\ Returned => \A j \in 1..Len(jobs) : TimesRun(j) = 1
\* A run on more files than the pool has workers has returned.
C9_Witness ==
    /\ Returned
    /\ Len(l) = 3
    /\ cpu = 1
    /\ Len(jobs) = 3

\* C10: parse_file on a file whose number of lines is not a multiple of 4 never
\* returns a dictionary, it raises; and my_dict never holds more records than
\* complete groups of four lines were read.
C10_IncompleteGroupIsError ==
    /\ (Len(content) % 4 # 0 /\ ppc \in {"returned", "raised"}) =>
            (ppc = "raised" /\ ret = EmptyDict)
    /\ Cardinality(Keys(st.my_dict)) <= (Len(content) - Len(fh)) \div 4
\* parse_file raised on a file of five lines after decoding its first record.
C10_Witness ==
    /\ ppc = "raised"
    /\ Len(content) = 5
    /\ fh = << >>
    /\ Cardinality(Keys(st.my_dict)) = 1
    /\ st.error.kind = "ValueError"

\* The call of parse_fastq_to_dict is over.
Called == dpc \in {"returned", "raised"}
\* The sequence and quality lines of the list passed (four lines).
SeqLine == rec[2]
QualLine == rec[4]

\* C11: a record whose quality line and sequence line are both non-empty and of
\* different lengths is fatal: the call raises and the table is as it was.
C11_LengthMismatchIsFatal ==
    (Called /\ Len(rec) = 4 /\ SeqLine # << >> /\ QualLine # << >>
        /\ Len(SeqLine) # Len(QualLine))
    => (dpc = "raised" /\ after = before)

\* The record the call stored under the read id of the header passed.
Stored == after[ReadId(rec[1])]

\* C12: a record with an empty sequence line or an empty quality line is fatal:
\* the call raises and the table is as it was, and no record of the table has
\* length 0.
C12_EmptyLineIsFatal ==
    /\ (Called /\ Len(rec) = 4 /\ (SeqLine = << >> \/ QualLine = << >>))
          => (dpc = "raised" /\ after = before)
    /\ \A k \in Keys(after) : after[k].length >= 1
\* A call on a well-formed header and an empty sequence line, with a table that
\* held a record, has raised the division error.
C12_Witness ==
    /\ dpc = "raised"
    /\ rec[1] = GoodHeader
    /\ SeqLine = << >>
    /\ QualLine # << >>
    /\ exc.kind = "ZeroDivisionError"
    /\ before # EmptyDict

\* The text of s after the first byte b (nothing when b is not in s).
RECURSIVE AfterFirst(_, _)
AfterFirst(s, b) ==
    IF s = << >> THEN << >>
    ELSE IF Head(s) = b THEN Tail(s) ELSE AfterFirst(Tail(s), b)
MalformedHeader(h) ==
    LET tokens == SplitWs(h, << >>)
    IN \/ Len(tokens) < 5
       \/ \A i \in 1..Len(tokens[5]) : tokens[5][i] # Ord("=")
       \/ ~IsDateText(AfterFirst(tokens[5], Ord("=")))

\* C13: a header line of fewer than 5 tokens, or whose 5th token has no '=', or
\* whose text after the '=' is no date-time, is fatal: the call raises and the
\* table is as it was.
C13_MalformedHeaderIsFatal ==
    (Called /\ Len(rec) = 4 /\ MalformedHeader(rec[1]))
    => (dpc = "raised" /\ after = before)

\* The number of upper-case G and C of a line.
GcCount(s) == Cardinality({i \in 1..Len(s) : s[i] \in {Ord("G"), Ord("C")}})
\* 100 * k / n is a whole number and a half.
IsHalf(k, n) == (200 * k) % n = 0 /\ (100 * k) % n # 0
\* The ways of rounding a half, and the whole number each takes for 100 * k / n.
TieRules == {"even", "odd", "up", "down"}
Tie(rule, k, n) ==
    LET lo == (100 * k) \div n
    IN CASE rule = "even" -> IF lo % 2 = 0 THEN lo ELSE lo + 1
         [] rule = "odd" -> IF lo % 2 = 1 THEN lo ELSE lo + 1
         [] rule = "up" -> lo + 1
         [] rule = "down" -> lo
\* The sequence lines the calls are made with.
SeqInputs == {g[2] : g \in {x \in Groups : Len(x) = 4 /\ x[2] # << >>}}
\* One rule gives the gc of every sequence line whose percentage is a half.
OneTieRule ==
    \E rule \in TieRules :
        \A s \in SeqInputs :
            IsHalf(GcCount(s), Len(s)) => gc_percent(s) = Tie(rule, GcCount(s), Len(s))
\* The stored gc is in 0..100 and no further than a half from 100 * k / n.
GcNearest ==
    dpc = "returned" =>
        /\ Stored.gc \in 0..100
        /\ 2 * Abs(100 * GcCount(SeqLine) - Stored.gc * Len(SeqLine)) <= Len(SeqLine)
        /\ Stored.length = Len(SeqLine)
        /\ (SeqLine = Bytes(<< "G", "G", "C", "C", "A", "T" >>) => Stored.gc = 67)

\* C14: the gc of a stored record is the whole number nearest to
\* 100 * (G + C) / length, counting upper-case G and C only and all characters
\* in the length; it is in 0..100, it is 67 for GGCCAT, and the halves are all
\* rounded by one rule.
C14_GcPercent ==
    /\ GcNearest
    /\ (dpc = "returned" /\ IsHalf(GcCount(SeqLine), Len(SeqLine))) => OneTieRule

\* The sum of (byte - 33) over the first n characters of q.
RECURSIVE TotalScore(_, _)
TotalScore(q, n) == IF n = 0 THEN 0 ELSE (q[n] - 33) + TotalScore(q, n - 1)

HasFail(f) ==
    \E i \in 1..(Len(f) - 3) :
        f[i] = "f" /\ f[i + 1] = "a" /\ f[i + 2] = "i" /\ f[i + 3] = "l"
HasPass(f) ==
    \E i \in 1..(Len(f) - 3) :
        f[i] = "p" /\ f[i + 1] = "a" /\ f[i + 2] = "s" /\ f[i + 3] = "s"

\* C16: once parse_file has set it, the flag is 'fail' when the path has "fail"
\* in it, in these very letters, and 'pass' when it has not (whether or not it
\* has "pass"); the records stored carry that flag.
C16_FlagFromPath ==
    /\ ppc # "start" => file_flag = (IF HasFail(fpath) THEN "fail" ELSE "pass")
    /\ \A k \in Keys(st.my_dict) :
          st.my_dict[k].flag = (IF HasFail(fpath) THEN "fail" ELSE "pass")
\* parse_file returned records flagged 'pass' for a path with neither "pass" nor
\* "fail" (it has "Fail").
C16_Witness ==
    /\ ppc = "returned"
    /\ fpath = PathH
    /\ ~HasFail(fpath)
    /\ ~HasPass(fpath)
    /\ Keys(ret) # {}
    /\ \A k \in Keys(ret) : ret[k].flag = "pass"

\* The text of s before its first c (all of s when c is not in it).
RECURSIVE Before(_, _)
Before(s, c) ==
    IF s = << >> \/ Head(s) = c THEN << >>
    ELSE << Head(s) >> \o Before(Tail(s), c)
\* The text of f after its last '/'.
BaseOf(f) ==
    LET slashes == {i \in 1..Len(f) : f[i] = "/"}
    IN IF slashes = {} THEN f
       ELSE SubSeq(f, (CHOOSE i \in slashes : \A j \in slashes : j <= i) + 1, Len(f))
\* Every record of the dictionary carries the name and the flag of the file.
AllCarry(dict) ==
    \A k \in Keys(dict) : dict[k].name = file_name /\ dict[k].flag = file_flag

\* C17: the sample name is the base name of the path cut at its first '.' and
\* then at its first '_'; name and flag are set before the first line is read
\* and never change afterwards, and every record of the fragment carries them.
C17_OneNameOneFlag ==
    /\ [](/\ ppc # "start" => file_name = Before(Before(BaseOf(fpath), "."), "_")
          /\ ppc = "start" => (fh = content /\ st = LoopStart)
          /\ AllCarry(st.my_dict)
          /\ AllCarry(ret))
    /\ [][ppc # "start" => (file_name' = file_name /\ file_flag' = file_flag)]_vars
\* parse_file returned two records named "a" for /in/pass/a_b.c_d.fastq.
C17_Witness ==
    /\ ppc = "returned"
    /\ fpath = PathJ
    /\ file_name = << "a" >>
    /\ Cardinality(Keys(ret)) = 2

\* The last n characters of a name (none when it is shorter).
Ending(nm, n) == IF Len(nm) < n THEN << >> ELSE [i \in 1..n |-> nm[Len(nm) - n + i]]
\* The name ends in .fastq or in .fastq.gz.
FastqName(nm) ==
    \/ Ending(nm, 6) = << ".", "f", "a", "s", "t", "q" >>
    \/ Ending(nm, 9) = << ".", "f", "a", "s", "t", "q", ".", "g", "z" >>
\* The paths of the regular files of the tree that have such a name.
Matching(t) ==
    {PathJoin(e.parent, e.name) : e \in {x \in t : x.kind = "file" /\ FastqName(x.name)}}
\* check_args is over, one way or another.
ArgsChecked == apc \in {"returned", "raised", "exited"}

\* C18: when check_args has walked an input folder under which no regular file
\* has a name ending in .fastq or .fastq.gz, it has raised Exception; after the
\* raise no pool exists and no task was submitted, and parse_fastq_parallel is
\* only ever started on a list that is not empty.
C18_NothingFoundRaises ==
    /\ (ArgsChecked /\ input_folder # << >> /\ output_folder # << >>
            /\ Matching(tree) = {})
          => (apc = "raised" /\ err.kind = "Exception")
    /\ apc = "raised" => (pc = "idle" /\ pool = "none" /\ jobs = << >>)
    /\ pc = "pool" => l # << >>
\* check_args raised after making the output folder and walking a folder that
\* holds a text file and a directory named x.fastq.
C18_Witness ==
    /\ apc = "raised"
    /\ created = {OutFolder}
    /\ Entry(InFolder, << "n", "o", "t", "e", "s", ".", "t", "x", "t" >>, "file") \in tree
    /\ Entry(InFolder, << "x", ".", "f", "a", "s", "t", "q" >>, "dir") \in tree
    /\ l = << >>

Listed == {l[i] : i \in 1..Len(l)}

\* C20: the list never holds a path twice nor a path that is not a regular file
\* of the tree with a name ending in .fastq or .fastq.gz, and once the walk of
\* the input folder is over it holds every such file, whatever its depth.
C20_DiscoverySelects ==
    /\ Distinct(l)
    /\ Listed \subseteq Matching(tree)
    /\ (apc \in {"returned", "raised"} /\ input_folder # << >>)
          => Listed = Matching(tree)
\* check_args returned with the one file three directories down listed, and
\* the dangling link lost.fastq left out.
C20_Witness ==
    /\ apc = "returned"
    /\ l = << PathJoin(DeepDir, << "z", ".", "f", "a", "s", "t", "q", ".", "g", "z" >>) >>
    /\ Entry(InFolder, << "l", "o", "s", "t", ".", "f", "a", "s", "t", "q" >>, "link") \in tree

\* Whether a raw line is an empty line of the file: nothing but its line end.
EmptyLine(raw) == Rstrip(raw) = << >>
\* The position of the first empty line of the text (0: there is none).
FirstEmpty(raws) ==
    IF \E k \in 1..Len(raws) : EmptyLine(raws[k])
    THEN CHOOSE k \in 1..Len(raws) :
            EmptyLine(raws[k]) /\ \A j \in 1..(k - 1) : ~EmptyLine(raws[j])
    ELSE 0
\* The lines of the text before its first empty line.
UpToEmpty(raws) == SubSeq(raws, 1, FirstEmpty(raws) - 1)
\* parse_file is over.
FileOver == ppc \in {"returned", "raised"}

\* C21: an empty line ends the stream: of a file with an empty line no line after
\* the first empty line is read into a group or decoded, and parse_file ends as
\* on the lines before it: it returns their records when the group in progress
\* has exactly 4 lines and raises when it has 1 to 3.
C21_EmptyLineEndsStream ==
    FirstEmpty(content) > 0 =>
        /\ Len(content) - Len(fh) <= FirstEmpty(content)
        /\ Keys(st.my_dict) \subseteq ReadIds(UpToEmpty(content))
        /\ (FileOver /\ Len(UpToEmpty(content)) % 4 \in 1..3) => ppc = "raised"
        /\ (FileOver /\ WellFormedText(UpToEmpty(content))) =>
              (ppc = "returned" /\ Keys(ret) = ReadIds(UpToEmpty(content)))

\* Job j was collected by the dispatcher: its fragment was appended to results.
Collected(j) == j <= Len(results)
\* The position of job j in the order in which the workers finished the jobs.
FinishedAt(j) == CHOOSE k \in 1..Len(completed) : completed[k] = j

\* C22: fail-fast gather: the dispatcher never collects the result of a task that
\* finished after some task had failed (it does not wait for the tasks still
\* running or not yet started), and once it has raised no task that was not yet
\* started is started any more (their cancellation was requested).
C22_FailFast ==
    /\ [](\A a, b \in 1..Len(completed) :
            (a < b /\ jobs[completed[a]].status = "failed") => ~Collected(completed[b]))
    /\ [][pc = "raised" =>
            \A j \in 1..Len(jobs) :
                jobs[j].status = "pending" => jobs'[j].status = "pending"]_vars

\* Every file of the list was parsed into a fragment and every fragment merged.
TableComplete ==
    /\ Len(jobs) = Len(l)
    /\ \A j \in 1..Len(jobs) : jobs[j].status = "done"
    /\ Len(results) = Len(l)
    /\ Keys(d) = UNION {Keys(jobs[j].value.dict) : j \in 1..Len(jobs)}
    /\ d = SerialMaster(l)

\* C23: make_fastq_plots is entered only from the point where parse_fastq_parallel
\* has returned, with a table that is complete (every file parsed, every fragment
\* merged) and not empty; on an empty table run() raises 'No data!' and makes no
\* plot.
C23_PlotsSeeCompleteTable ==
    /\ [](/\ pc = "plots" => (TableComplete /\ Keys(d) # {} /\ pool = "joined")
          /\ pc = "nodata" => Keys(d) = {}
          /\ DataCheck(EmptyDict) = "nodata")
    /\ [][(pc' = "plots" /\ pc # "plots") => (pc = "returned" /\ d' = d)]_vars
\* The plots are reached on three files whose tasks did not finish in list order.
C23_Witness ==
    /\ pc = "plots"
    /\ Len(l) = 3
    /\ completed # << 1, 2, 3 >>
    /\ Cardinality(Keys(d)) >= 4

\* The notice that pass reads are assumed is among the messages printed.
AssumedNotice == \E i \in 1..Len(out) : out[i].text = "Parsing, assuming pass"

\* C24: once parse_file has set the flag of a path with neither "pass" nor "fail"
\* in it, the flag is 'pass' and the notice that pass reads are assumed has been
\* printed.
C24_DefaultPassNotice ==
    (ppc # "start" /\ ~HasFail(fpath) /\ ~HasPass(fpath)) =>
        (file_flag = "pass" /\ AssumedNotice)

\* The path parse_fastq was given for the file it works on.
Discovered == l[idx]
\* parse_fastq has set the flag of the file it works on.
SerialFlagSet == spc \in {"read", "took"}

\* C26: the flag parse_fastq sets is 'fail' when the path of the file as it is
\* in the list has "fail" in it, and in every case the flag parse_file sets for
\* that path, for .fastq and .fastq.gz files alike.
C26_SerialFlagFromPath ==
    SerialFlagSet =>
        /\ HasFail(Discovered) => sflag = "fail"
        /\ sflag = Flag(Discovered)

\* The dispatcher is blocked in j.get() on a job that is not finished.
WaitingOnResult == pc = "get" /\ ~Finished(idx)

\* C28: under fair scheduling parse_fastq_parallel eventually stops, by raising or
\* by returning with every fragment merged, and a wait on a task result always
\* comes to an end.
C28_Terminates ==
    /\ <>(pc = "raised" \/ (Returned /\ TableComplete))
    /\ WaitingOnResult ~> ~WaitingOnResult
\* The call returned on three files parsed by one worker, every worker exited.
C28_Witness ==
    /\ pc = "returned"
    /\ Len(l) = MaxFiles
    /\ cpu = 1
    /\ \A w \in 1..cpu : ~workers[w].alive
    /\ Len(results) = MaxFiles

\* The file of path f has zero lines.
ZeroLines(f) == Disk(f).raws = << >>

\* C29: a file of zero lines never yields a fragment: its task fails with the
\* ValueError of decoding an empty group, no task ever returns an empty fragment,
\* and a run whose list holds such a file never returns and leaves the master
\* dictionary empty.
C29_EmptyFileAborts ==
    /\ \A j \in 1..Len(jobs) :
        (Finished(j) /\ ZeroLines(jobs[j].f)) =>
            /\ jobs[j].status = "failed"
            /\ jobs[j].value.error.kind = "ValueError"
            /\ Keys(jobs[j].value.dict) = {}
    /\ \A j \in 1..Len(jobs) :
        jobs[j].status = "done" => Keys(jobs[j].value.dict) # {}
    /\ (\E i \in 1..Len(l) : ZeroLines(l[i])) => (~Returned /\ Keys(d) = {})
\* The run was aborted on the file of zero lines after a file of two records had
\* been parsed and collected.
C29_Witness ==
    /\ pc = "raised"
    /\ err.kind = "ValueError"
    /\ l = << PathA, PathZ >>
    /\ Len(results) = 1
    /\ Cardinality(Keys(results[1])) = 2

\* The n-th group of four lines of the file, stripped as the read loop strips them.
StrippedGroup(n) == [i \in 1..4 |-> Rstrip(content[4 * n - 4 + i])]
\* The read id of the n-th group, and whether no later group carries it.
IdOfGroup(n) == ReadId(content[4 * n - 3])
LastOfItsId(n) ==
    \A m \in (n + 1)..(Len(content) \div 4) : IdOfGroup(m) # IdOfGroup(n)
\* The record the n-th group alone decodes to.
RecordOfGroup(n) ==
    parse_fastq_to_dict(StrippedGroup(n), EmptyDict, file_name, file_flag).dict[IdOfGroup(n)]

\* C30: the fragment parse_file returns has one entry per distinct read id of the
\* file, however many records carry it, and the entry of a read id is the record
\* of the last group of four lines that carries it.
C30_LastRecordKept ==
    ppc = "returned" =>
        /\ Keys(ret) = ReadIds(content)
        /\ Cardinality(Keys(ret)) = Cardinality({IdOfGroup(n) : n \in 1..(Len(content) \div 4)})
        /\ \A n \in 1..(Len(content) \div 4) :
              LastOfItsId(n) => ret[IdOfGroup(n)] = RecordOfGroup(n)
\* parse_file returned one entry for a file of two records with the same read id.
C30_Witness ==
    /\ ppc = "returned"
    /\ Len(content) = 8
    /\ IdOfGroup(1) = IdOfGroup(2)
    /\ StrippedGroup(1) # StrippedGroup(2)
    /\ Cardinality(Keys(ret)) = 1

\* Both an input folder and a summary file were given.
BothInputs == input_folder # << >> /\ input_summary # << >>

\* C25: with both an input folder and a summary file given, check_args ends in
\* sys.exit(1) at its first test, and run() never goes on to parse fastq files.
C25_BothInputsExit ==
    BothInputs =>
        /\ apc \in {"args", "exited"}
        /\ apc = "exited" => exit_code = 1
        /\ pc # "pool"

\* Where the i-th chunk yielded starts and ends.
ChunkStart(i) == chunks[i][1]
ChunkEnd(i) == chunks[i][1] + chunks[i][2]
\* Offset b is the first byte of a header line of the file: a line starts there
\* and 'runid' is in it.
AtHeader(b) ==
    /\ b < file_end
    /\ (b = 0 \/ data[b] = Ord("\n"))
    /\ Contains(Readline(data, b), Bytes(<< "r", "u", "n", "i", "d" >>))
\* The chunks yielded so far are contiguous from offset 0 and none is empty.
Contiguous ==
    /\ \A i \in 1..Len(chunks) : chunks[i][2] > 0
    /\ chunks # << >> => ChunkStart(1) = 0
    /\ \A i \in 1..(Len(chunks) - 1) : ChunkStart(i + 1) = ChunkEnd(i)
\* chunkify has stopped or has a step to take; it yields at most one chunk per
\* size bytes of the file, and one more.
StopsAfterFinitelyMany ==
    /\ cpc = "done" \/ ENABLED NextChunk
    /\ Len(chunks) <= file_end \div size + 1

\* C27 as stated: the chunks are contiguous from offset 0 and not empty, every
\* chunk end is the end of the file or the first byte of a header line, the
\* last chunk ends at the end of the file, and finitely many are yielded.
C27_ChunksTileExactly ==
    /\ Contiguous
    /\ \A i \in 1..Len(chunks) : ChunkEnd(i) = file_end \/ AtHeader(ChunkEnd(i))
    /\ cpc = "done" => (chunks # << >> /\ ChunkEnd(Len(chunks)) = file_end)
    /\ StopsAfterFinitelyMany

\* C27, amended: the chunks are contiguous from offset 0 and not empty, every
\* chunk end before the end of the file is the first byte of a header line, only
\* the last chunk reaches the end of the file, and it ends there or, when the
\* seek of size bytes went past the end, size bytes after its start; finitely
\* many chunks are yielded.
C27_ChunksTile ==
    /\ Contiguous
    /\ \A i \in 1..Len(chunks) : ChunkEnd(i) < file_end => AtHeader(ChunkEnd(i))
    /\ \A i \in 1..(Len(chunks) - 1) : ChunkEnd(i) < file_end
    /\ cpc = "done" =>
          /\ chunks # << >>
          /\ \/ ChunkEnd(Len(chunks)) = file_end
             \/ /\ ChunkEnd(Len(chunks)) > file_end
                /\ chunks[Len(chunks)][2] = size
    /\ StopsAfterFinitelyMany
\* chunkify stopped after two chunks, the first ending at the header line of the
\* second record and the last one past the end of the file.
C27_Witness ==
    /\ cpc = "done"
    /\ Len(chunks) = 2
    /\ ChunkEnd(1) > Len(ChunkRecord)
    /\ AtHeader(ChunkEnd(1))
    /\ ChunkEnd(2) > file_end

=============================================================================
